---- MODULE Spec2Model ----
(***************************************************************************)
(* LendingPlatform (NFT-collateralised peer-to-peer loans) together with   *)
(* the ERC-721 collateral registry it escrows items in.                    *)
(*                                                                         *)
(* Every external function of the contract is a pure operator from the     *)
(* chain state at call entry to a result [err, st]: err = "" and st the    *)
(* committed state when the call returns, err the revert string and st the *)
(* state at call entry when it reverts (EVM transactions are atomic).      *)
(***************************************************************************)
EXTENDS Integers, Sequences, FiniteSets, TLC

\* ------------------------------------------------------------- bounds
MaxRequests == 2
MaxTokens == 1
InitBalance == 1100000

\* ---------------------------------------------------------- constants
MAX_INTEREST_RATE == 7
DAY == 86400
REQUEST_EXPIRY == 2 * DAY

\* ------------------------------------------------------------ universe
Accounts == {"alice", "bob", "carol"}
Ledger == "ledger"
ZeroAddr == "0x0"
Holders == Accounts \cup {Ledger}

RequestIds == 0..MaxRequests
LoanIds == 0..MaxRequests
TokenIds == 1..MaxTokens

\* inputs offered to createLoanRequest, <<amount, days, rate>>: two valid
\* terms and one invalid term per validation rule
Terms ==
    {<<1000000, 3, 5>>, <<7, 1, 7>>,
     <<0, 3, 5>>, <<1000000, 0, 5>>, <<1000000, 3, 0>>, <<1000000, 3, MAX_INTEREST_RATE + 1>>}
Overpay == 50000

\* accounts that mint collateral items, and accounts that use blanket approval
Minters == {"alice"}
BlanketApprovers == {"alice"}

\* what goes wrong in a transaction's external calls (at most the first
\* failure matters, since it aborts the transaction)
Faults == {"none", "payee", "refund", "custodian"}

VARIABLES
    loanRequests,        \* mapping(uint256 => LoanRequest)
    activeLoans,         \* mapping(uint256 => ActiveLoan)
    totalRequests,       \* next request id
    totalLoans,          \* next loan id
    requestCreatedAt,    \* mapping(uint256 => uint256)
    requestStatus,       \* mapping(uint256 => RequestStatus)
    borrowerRequestIds,  \* mapping(address => uint256[])
    owners,              \* ERC-721 holder of each token (ZeroAddr: not minted)
    tokenApprovals,      \* ERC-721 per-token approved address
    operatorApprovals,   \* accounts that gave the ledger blanket approval
    nextTokenId,         \* TokenNFT.nextTokenId
    balance,             \* value balance of every account and of the ledger
    events,              \* the ledger's event log
    now                  \* block.timestamp

state == <<loanRequests, activeLoans, totalRequests, totalLoans, requestCreatedAt,
           requestStatus, borrowerRequestIds, owners, tokenApprovals,
           operatorApprovals, nextTokenId, balance, events>>
vars == <<loanRequests, activeLoans, totalRequests, totalLoans, requestCreatedAt,
          requestStatus, borrowerRequestIds, owners, tokenApprovals,
          operatorApprovals, nextTokenId, balance, events, now>>

\* The chain state as one value, so that a call can stage writes and revert.
Cur ==
    [loanRequests |-> loanRequests, activeLoans |-> activeLoans,
     totalRequests |-> totalRequests, totalLoans |-> totalLoans,
     requestCreatedAt |-> requestCreatedAt, requestStatus |-> requestStatus,
     borrowerRequestIds |-> borrowerRequestIds, owners |-> owners,
     tokenApprovals |-> tokenApprovals, operatorApprovals |-> operatorApprovals,
     nextTokenId |-> nextTokenId, balance |-> balance, events |-> events]

DefaultRequest ==
    [borrower |-> ZeroAddr, loanAmount |-> 0, durationInDays |-> 0,
     interestRate |-> 0, collateralTokenId |-> 0, isActive |-> FALSE]

DefaultLoan ==
    [borrower |-> ZeroAddr, lender |-> ZeroAddr, loanAmount |-> 0,
     collateralTokenId |-> 0, startTimestamp |-> 0, endTime |-> 0,
     interestRate |-> 0, isRepaid |-> FALSE]

\* ------------------------------------------------ transaction outcomes
\* (variant: a rejected call leaves a trace in the event log)
Revert_logged(S0, msg) ==
    [err |-> msg,
     st |-> [S0 EXCEPT !.events = Append(@, [name |-> "Rejected", id |-> 0, args |-> <<msg>>])]]

Revert(S0, msg) == [err |-> msg, st |-> S0]
Return(S) == [err |-> "", st |-> S]
Emit(S, e) == [S EXCEPT !.events = Append(@, e)]

\* msg.value arrives at the ledger when a payable function is entered
Receive(S, sender, value) ==
    [S EXCEPT !.balance[sender] = @ - value, !.balance[Ledger] = @ + value]

\* payable(to).call{value: amount}(""): the recipient accepts or rejects
Call(S, to, amount, accepts) ==
    IF accepts
    THEN [ok |-> TRUE,
          st |-> [S EXCEPT !.balance[Ledger] = @ - amount, !.balance[to] = @ + amount]]
    ELSE [ok |-> FALSE, st |-> S]

\* -------------------------------------------------- ERC-721 custodian
isApprovedForAll(S, owner, operator) ==
    operator = Ledger /\ owner \in S.operatorApprovals

isApprovedOrOwner(S, spender, tokenId) ==
    LET owner == S.owners[tokenId] IN
    \/ spender = owner
    \/ isApprovedForAll(S, owner, spender)
    \/ S.tokenApprovals[tokenId] = spender

\* transferFrom(from, to, tokenId) called by spender; custodianOk = FALSE is a
\* registry that refuses the transfer (IERC721 is any implementation)
transferFrom(S, spender, from, to, tokenId, custodianOk) ==
    IF \/ ~custodianOk
       \/ tokenId \notin DOMAIN S.owners
       \/ S.owners[tokenId] = ZeroAddr
       \/ ~isApprovedOrOwner(S, spender, tokenId)
       \/ S.owners[tokenId] # from
       \/ to = ZeroAddr
    THEN [ok |-> FALSE, st |-> S]
    ELSE [ok |-> TRUE,
          st |-> [S EXCEPT !.tokenApprovals[tokenId] = ZeroAddr,
                           !.owners[tokenId] = to]]

\* ------------------------------------------------ LendingPlatform guards
\* (variant: the counter is incremented before it is read)
getNextRequestId_preIncrement(S) == S.totalRequests + 1

\* uint256 requestId = totalRequests; totalRequests++
getNextRequestId(S) == S.totalRequests

\* uint256 loanId = totalLoans; totalLoans++
getNextLoanId(S) == S.totalLoans

\* (variant: funding clears the active flag only, the status is not written)
fundedStatus_unrecorded(S, requestId) == S.requestStatus[requestId]

\* requestStatus[_requestId] = RequestStatus.FUNDED
fundedStatus(S, requestId) == "FUNDED"

\* (variant: the duration is added as seconds)
loanEndTime_inSeconds(t, durationInDays) == t + durationInDays

\* block.timestamp + (request.durationInDays * 1 days)
loanEndTime(t, durationInDays) == t + durationInDays * DAY

\* (variant: the per-borrower index is not maintained)
pushRequestId_skipped(ids, requestId) == ids

\* borrowerRequestIds[msg.sender].push(requestId)
pushRequestId(ids, requestId) == Append(ids, requestId)

\* (variant: the record's active flag is not looked at)
RequestIsActive_unchecked(request) == TRUE

\* require(request.isActive, "Request is not active")
RequestIsActive(request) == request.isActive

\* (variant: every caller may cancel)
IsRequestBorrower_anyone(request, sender) == TRUE

\* require(request.borrower == msg.sender, "Only borrower can cancel")
IsRequestBorrower(request, sender) == request.borrower = sender

\* (variant: the rate has no upper limit)
ValidInterestRate_noCap(rate) == rate > 0

\* _interestRate > 0 && _interestRate <= MAX_INTEREST_RATE
ValidInterestRate(rate) == rate > 0 /\ rate <= MAX_INTEREST_RATE

\* (variant: the authorization is left to the custodian to check)
LedgerAuthorized_unchecked(S, sender, tokenId) == TRUE

\* getApproved(tokenId) == address(this) || isApprovedForAll(msg.sender, address(this))
LedgerAuthorized(S, sender, tokenId) ==
    \/ S.tokenApprovals[tokenId] = Ledger
    \/ isApprovedForAll(S, sender, Ledger)

\* (variant: strict comparison)
FundWindowOpen_strict(createdAt, t) == t < createdAt + REQUEST_EXPIRY

\* block.timestamp <= createdAt + REQUEST_EXPIRY
FundWindowOpen(createdAt, t) == t <= createdAt + REQUEST_EXPIRY

\* (variant: the last instant of the window counts as lapsed)
RequestWindowLapsed_inclusive(createdAt, t) == t >= createdAt + REQUEST_EXPIRY

\* block.timestamp > createdAt + REQUEST_EXPIRY
RequestWindowLapsed(createdAt, t) == t > createdAt + REQUEST_EXPIRY

\* (variant: a late repayment is accepted)
RepayInTime_unchecked(loan, t) == TRUE

\* (variant: strict comparison)
RepayInTime_strict(loan, t) == t < loan.endTime

\* block.timestamp <= loan.endTime
RepayInTime(loan, t) == t <= loan.endTime

\* (variant: the deadline instant itself counts as expired)
LoanPastDeadline_atDeadline(loan, t) == t >= loan.endTime

\* block.timestamp > loan.endTime
LoanPastDeadline(loan, t) == t > loan.endTime

\* (variant: an overpayment is accepted)
ExactValueSent_atLeast(value, amount) == value >= amount

\* msg.value == request.loanAmount
ExactValueSent(value, amount) == value = amount

\* (variant: a closed loan can be closed again)
LoanOpen_unchecked(loan) == TRUE

\* !loan.isRepaid
LoanOpen(loan) == ~loan.isRepaid

\* (variant: liquidation is open to every caller)
IsLender_anyone(loan, sender) == TRUE

\* msg.sender == loan.lender
IsLender(loan, sender) == sender = loan.lender

\* (variant: the result of the call is not checked)
PayoutSucceeded_unchecked(c) == TRUE

\* require(ok, "ETH transfer failed") in fundLoanRequest
PayoutSucceeded(c) == c.ok

\* (variant: the result of the payment to the lender is not checked)
LenderPaid_unchecked(c) == TRUE

\* require(ok, "ETH transfer to lender failed") in repayLoan
LenderPaid(c) == c.ok

\* (variant: any payment closes the loan)
SufficientRepay_any(value, required) == TRUE

\* msg.value >= required
SufficientRepay(value, required) == value >= required

\* (variant: the excess is kept by the ledger)
RefundAmount_none(value, required) == 0

\* msg.value - required, returned to the caller
RefundAmount(value, required) == value - required

\* (variant: an overpayment is never refunded)
RefundDue_never(value, required) == FALSE

\* if (msg.value > required)
RefundDue(value, required) == value > required

\* (variant: the result of the refund is not checked)
RefundSucceeded_unchecked(c) == TRUE

\* require(ok2, "Refund failed") in repayLoan
RefundSucceeded(c) == c.ok

\* (variant: a failure of the custodian is swallowed, as by try/catch)
CustodianReturned_swallowed(c) == TRUE

\* a revert inside collateralNft.transferFrom(...) propagates to the caller
CustodianReturned(c) == c.ok

\* (variant: the request is recorded without taking the item into escrow)
escrowCollateral_skipped(S, sender, tokenId, custodianOk) == [ok |-> TRUE, st |-> S]

\* collateralNft.transferFrom(msg.sender, address(this), tokenId)
escrowCollateral(S, sender, tokenId, custodianOk) ==
    transferFrom(S, Ledger, sender, Ledger, tokenId, custodianOk)

\* (variant: the record is closed without handing the item over)
releaseCollateral_skipped(S, to, tokenId, custodianOk) == [ok |-> TRUE, st |-> S]

\* collateralNft.transferFrom(address(this), to, tokenId)
releaseCollateral(S, to, tokenId, custodianOk) ==
    transferFrom(S, Ledger, Ledger, to, tokenId, custodianOk)

\* (variant: a cancel also clears the record's item reference)
cancelledRecord_cleared(request) ==
    [request EXCEPT !.isActive = FALSE, !.collateralTokenId = 0]

\* request.isActive = false: the one field of the record a cancel writes
cancelledRecord(request) == [request EXCEPT !.isActive = FALSE]

\* (variant: the record's item reference is cleared before it is used)
cancelledTokenId_cleared(request) == 0

\* the item a cancel hands back: request.collateralTokenId
cancelledTokenId(request) == request.collateralTokenId

\* (variant: the item goes to whoever calls expire)
expireRecipient_caller(request, sender) == sender

\* who receives the collateral of an expired request
expireRecipient(request, sender) == request.borrower

\* (variant: the item of a liquidated loan goes back to the borrower)
liquidateRecipient_borrower(loan, sender) == loan.borrower

\* who receives the collateral of a liquidated loan
liquidateRecipient(loan, sender) == loan.lender

\* (variant: the item of a repaid loan goes to the lender)
repayRecipient_lender(loan, sender) == loan.lender

\* who receives the collateral of a repaid loan
repayRecipient(loan, sender) == loan.borrower

\* (variant: the loan is not marked closed before the lender is paid)
repaidLoan_leftOpen(loan) == loan

\* loan.isRepaid = true in repayLoan, ahead of the transfers
repaidLoan(loan) == [loan EXCEPT !.isRepaid = TRUE]

\* (variant: a liquidation hands the item over and leaves the loan open)
liquidatedLoan_leftOpen(loan) == loan

\* loan.isRepaid = true in liquidateExpiredLoan
liquidatedLoan(loan) == [loan EXCEPT !.isRepaid = TRUE]

\* (variant: the creation time is not recorded)
createdAtStamp_unset(t) == 0

\* requestCreatedAt[requestId] = block.timestamp
createdAtStamp(t) == t

\* ------------------------------------------------ createLoanRequest
createLoanRequest(S, sender, amount, duration, rate, tokenId, t, custodianOk) ==
    IF ~(amount > 0) THEN Revert(S, "Loan amount must be greater than 0")
    ELSE IF ~(duration > 0) THEN Revert(S, "Duration must be greater than 0")
    ELSE IF ~ValidInterestRate(rate) THEN Revert(S, "Invalid interest rate")
    ELSE IF S.owners[tokenId] = ZeroAddr THEN Revert(S, "ERC721: invalid token ID")
    ELSE IF S.owners[tokenId] # sender THEN Revert(S, "Not owner of NFT")
    ELSE IF ~LedgerAuthorized(S, sender, tokenId) THEN Revert(S, "NFT not approved")
    ELSE
      LET escrow == escrowCollateral(S, sender, tokenId, custodianOk)
          requestId == getNextRequestId(S)
          S1 == [escrow.st EXCEPT
                   !.totalRequests = @ + 1,
                   !.loanRequests[requestId] =
                       [borrower |-> sender, loanAmount |-> amount,
                        durationInDays |-> duration, interestRate |-> rate,
                        collateralTokenId |-> tokenId, isActive |-> TRUE],
                   !.requestCreatedAt[requestId] = createdAtStamp(t),
                   !.requestStatus[requestId] = "ACTIVE",
                   !.borrowerRequestIds[sender] = pushRequestId(@, requestId)]
      IN IF ~CustodianReturned(escrow) THEN Revert(S, "ERC721: transfer failed")
         ELSE Return(Emit(S1, [name |-> "LoanRequestCreated", id |-> requestId,
                               args |-> <<sender, amount, duration, rate, tokenId, t>>]))

\* ------------------------------------------------ expireLoanRequest
\* (variant: only the borrower may expire a request, as for a cancel)
expireLoanRequest_borrowerOnly(S, sender, requestId, t, custodianOk) ==
    LET request == S.loanRequests[requestId]
        createdAt == S.requestCreatedAt[requestId]
    IN
    IF ~RequestIsActive(request) THEN Revert(S, "Request is not active")
    ELSE IF request.borrower # sender THEN Revert(S, "Only borrower can expire")
    ELSE IF S.requestStatus[requestId] # "ACTIVE" THEN Revert(S, "Not ACTIVE")
    ELSE IF createdAt = 0 THEN Revert(S, "Missing createdAt")
    ELSE IF ~RequestWindowLapsed(createdAt, t) THEN Revert(S, "Not expired yet")
    ELSE
      LET S1 == [S EXCEPT !.loanRequests[requestId].isActive = FALSE,
                          !.requestStatus[requestId] = "EXPIRED"]
          back == releaseCollateral(S1, expireRecipient(request, sender),
                                    request.collateralTokenId, custodianOk)
      IN IF ~CustodianReturned(back) THEN Revert(S, "ERC721: transfer failed")
         ELSE Return(Emit(back.st, [name |-> "LoanRequestExpired", id |-> requestId,
                                    args |-> <<request.borrower, request.collateralTokenId>>]))

expireLoanRequest(S, sender, requestId, t, custodianOk) ==
    LET request == S.loanRequests[requestId]
        createdAt == S.requestCreatedAt[requestId]
    IN
    IF ~RequestIsActive(request) THEN Revert(S, "Request is not active")
    ELSE IF S.requestStatus[requestId] # "ACTIVE" THEN Revert(S, "Not ACTIVE")
    ELSE IF createdAt = 0 THEN Revert(S, "Missing createdAt")
    ELSE IF ~RequestWindowLapsed(createdAt, t) THEN Revert(S, "Not expired yet")
    ELSE
      LET S1 == [S EXCEPT !.loanRequests[requestId].isActive = FALSE,
                          !.requestStatus[requestId] = "EXPIRED"]
          back == releaseCollateral(S1, expireRecipient(request, sender),
                                    request.collateralTokenId, custodianOk)
      IN IF ~CustodianReturned(back) THEN Revert(S, "ERC721: transfer failed")
         ELSE Return(Emit(back.st, [name |-> "LoanRequestExpired", id |-> requestId,
                                    args |-> <<request.borrower, request.collateralTokenId>>]))

\* ------------------------------------------------ cancelLoanRequest
\* (variant: the two "is it still active" checks are missing)
cancelLoanRequest_unguarded(S, sender, requestId, custodianOk) ==
    LET request == S.loanRequests[requestId] IN
    IF request.borrower # sender THEN Revert(S, "Only borrower can cancel")
    ELSE
      LET S1 == [S EXCEPT !.loanRequests[requestId].isActive = FALSE,
                          !.requestStatus[requestId] = "CANCELLED"]
          back == releaseCollateral(S1, sender, request.collateralTokenId, custodianOk)
      IN IF ~CustodianReturned(back) THEN Revert(S, "ERC721: transfer failed")
         ELSE Return(Emit(back.st, [name |-> "LoanRequestCancelled", id |-> requestId,
                                    args |-> <<sender, request.collateralTokenId>>]))

cancelLoanRequest(S, sender, requestId, custodianOk) ==
    LET request == S.loanRequests[requestId] IN
    IF ~RequestIsActive(request) THEN Revert(S, "Request is not active")
    ELSE IF ~IsRequestBorrower(request, sender) THEN Revert(S, "Only borrower can cancel")
    ELSE IF S.requestStatus[requestId] # "ACTIVE" THEN Revert(S, "Not ACTIVE")
    ELSE
      LET S1 == [S EXCEPT !.loanRequests[requestId] = cancelledRecord(request),
                          !.requestStatus[requestId] = "CANCELLED"]
          back == releaseCollateral(S1, sender, cancelledTokenId(request), custodianOk)
      IN IF ~CustodianReturned(back) THEN Revert(S, "ERC721: transfer failed")
         ELSE Return(Emit(back.st, [name |-> "LoanRequestCancelled", id |-> requestId,
                                    args |-> <<sender, request.collateralTokenId>>]))

\* ------------------------------------------------ fundLoanRequest
fundLoanRequest(S, sender, requestId, value, t, borrowerAccepts) ==
    LET S0 == Receive(S, sender, value)
        request == S0.loanRequests[requestId]
        createdAt == S0.requestCreatedAt[requestId]
    IN
    IF ~RequestIsActive(request) THEN Revert(S, "Request is not active")
    ELSE IF S0.requestStatus[requestId] # "ACTIVE" THEN Revert(S, "Not ACTIVE")
    ELSE IF createdAt = 0 THEN Revert(S, "Missing createdAt")
    ELSE IF ~FundWindowOpen(createdAt, t) THEN Revert(S, "Request expired")
    ELSE IF ~ExactValueSent(value, request.loanAmount)
         THEN Revert(S, "Must send exact loan amount")
    ELSE
      LET loanId == getNextLoanId(S0)
          loan == [borrower |-> request.borrower, lender |-> sender,
                   loanAmount |-> request.loanAmount,
                   collateralTokenId |-> request.collateralTokenId,
                   startTimestamp |-> t,
                   endTime |-> loanEndTime(t, request.durationInDays),
                   interestRate |-> request.interestRate, isRepaid |-> FALSE]
          S1 == [S0 EXCEPT !.totalLoans = @ + 1,
                           !.activeLoans[loanId] = loan,
                           !.loanRequests[requestId].isActive = FALSE,
                           !.requestStatus[requestId] = fundedStatus(S0, requestId)]
          pay == Call(S1, request.borrower, value, borrowerAccepts)
      IN IF ~PayoutSucceeded(pay) THEN Revert(S, "ETH transfer failed")
         ELSE Return(Emit(pay.st, [name |-> "LoanFunded", id |-> loanId,
                                   args |-> <<requestId, sender, loan.borrower,
                                              loan.loanAmount, loan.collateralTokenId>>]))

\* ------------------------------------------------ repay amount
\* (variant: the division is done before the multiplication)
calculateRepayAmount_divideFirst(loan) ==
    loan.loanAmount + loan.loanAmount * (loan.interestRate \div 100)

calculateRepayAmount(loan) ==
    LET principal == loan.loanAmount
        interest == (principal * loan.interestRate) \div 100
    IN principal + interest

getRepayAmount(S, loanId) ==
    LET loan == S.activeLoans[loanId] IN
    IF ~LoanOpen(loan) THEN [err |-> "Loan already closed", value |-> 0]
    ELSE [err |-> "", value |-> calculateRepayAmount(loan)]

\* ------------------------------------------------ repayLoan
repayLoan(S, sender, loanId, value, t, lenderAccepts, refundAccepts, custodianOk) ==
    LET S0 == Receive(S, sender, value)
        loan == S0.activeLoans[loanId]
        required == calculateRepayAmount(loan)
    IN
    IF sender # loan.borrower THEN Revert(S, "Only borrower can repay")
    ELSE IF ~LoanOpen(loan) THEN Revert(S, "Loan already closed")
    ELSE IF ~RepayInTime(loan, t) THEN Revert(S, "Loan is expired")
    ELSE IF ~SufficientRepay(value, required) THEN Revert(S, "Insufficient repay amount")
    ELSE
      LET S1 == [S0 EXCEPT !.activeLoans[loanId] = repaidLoan(loan)]
          pay == Call(S1, loan.lender, required, lenderAccepts)
          refund == IF RefundDue(value, required)
                    THEN Call(pay.st, sender, RefundAmount(value, required), refundAccepts)
                    ELSE [ok |-> TRUE, st |-> pay.st]
          back == releaseCollateral(refund.st, repayRecipient(loan, sender),
                                    loan.collateralTokenId, custodianOk)
      IN IF ~LenderPaid(pay) THEN Revert(S, "ETH transfer to lender failed")
         ELSE IF ~RefundSucceeded(refund) THEN Revert(S, "Refund failed")
         ELSE IF ~CustodianReturned(back) THEN Revert(S, "ERC721: transfer failed")
         ELSE Return(Emit(back.st, [name |-> "LoanRepaid", id |-> loanId,
                                    args |-> <<loan.borrower, loan.lender, required>>]))

\* ------------------------------------------------ liquidateExpiredLoan
liquidateExpiredLoan(S, sender, loanId, t, custodianOk) ==
    LET loan == S.activeLoans[loanId] IN
    IF ~LoanOpen(loan) THEN Revert(S, "Loan already closed")
    ELSE IF ~LoanPastDeadline(loan, t) THEN Revert(S, "Loan not expired")
    ELSE IF ~IsLender(loan, sender) THEN Revert(S, "Only lender can liquidate")
    ELSE
      LET S1 == [S EXCEPT !.activeLoans[loanId] = liquidatedLoan(loan)]
          seize == releaseCollateral(S1, liquidateRecipient(loan, sender),
                                     loan.collateralTokenId, custodianOk)
      IN IF ~CustodianReturned(seize) THEN Revert(S, "ERC721: transfer failed")
         ELSE Return(Emit(seize.st, [name |-> "LoanLiquidated", id |-> loanId,
                                     args |-> <<loan.lender, loan.collateralTokenId>>]))

\* ------------------------------------------------ calls back into the ledger
\* The recipient of payable(to).call{value: amount}("") may be a contract:
\* its code runs when the value arrives, inside the call that pays it, and
\* may call the ledger. A callback is what the recipient does: it accepts
\* the value, or it makes one call to the ledger, swallows that call's
\* failure if it fails, and accepts the value.
Accept == [kind |-> "accept", fn |-> "", id |-> 0, value |-> 0]
Callback(fn, id, value) == [kind |-> "reenter", fn |-> fn, id |-> id, value |-> value]

\* the call the recipient makes, as msg.sender, on the state the ledger is in
\* when the value arrives; a call with more value than the recipient has
\* cannot be made
Reenter(S, who, cb, t) ==
    IF cb.value > S.balance[who] THEN Revert(S, "insufficient balance for call")
    ELSE CASE cb.fn = "fund" -> fundLoanRequest(S, who, cb.id, cb.value, t, TRUE)
           [] cb.fn = "cancel" -> cancelLoanRequest(S, who, cb.id, TRUE)
           [] cb.fn = "expire" -> expireLoanRequest(S, who, cb.id, t, TRUE)
           [] cb.fn = "repay" -> repayLoan(S, who, cb.id, cb.value, t, TRUE, TRUE, TRUE)
           [] cb.fn = "liquidate" -> liquidateExpiredLoan(S, who, cb.id, t, TRUE)

\* payable(to).call{value: amount}("") to a recipient with this callback;
\* nested is the outcome of the recipient's call to the ledger
CallBack(S, to, amount, cb, t) ==
    LET S1 == [S EXCEPT !.balance[Ledger] = @ - amount, !.balance[to] = @ + amount]
        n == Reenter(S1, to, cb, t)
    IN IF cb.kind = "accept" THEN [ok |-> TRUE, st |-> S1, nested |-> "none"]
       ELSE [ok |-> TRUE, st |-> n.st,
             nested |-> IF n.err = "" THEN "returned" ELSE n.err]

\* fundLoanRequest paying a borrower with a callback
fundLoanRequestReentered(S, sender, requestId, value, t, cb) ==
    LET S0 == Receive(S, sender, value)
        request == S0.loanRequests[requestId]
        createdAt == S0.requestCreatedAt[requestId]
        rejected(msg) == [err |-> msg, st |-> Revert(S, msg).st, nested |-> "none"]
    IN
    IF ~RequestIsActive(request) THEN rejected("Request is not active")
    ELSE IF S0.requestStatus[requestId] # "ACTIVE" THEN rejected("Not ACTIVE")
    ELSE IF createdAt = 0 THEN rejected("Missing createdAt")
    ELSE IF ~FundWindowOpen(createdAt, t) THEN rejected("Request expired")
    ELSE IF ~ExactValueSent(value, request.loanAmount)
         THEN rejected("Must send exact loan amount")
    ELSE
      LET loanId == getNextLoanId(S0)
          loan == [borrower |-> request.borrower, lender |-> sender,
                   loanAmount |-> request.loanAmount,
                   collateralTokenId |-> request.collateralTokenId,
                   startTimestamp |-> t,
                   endTime |-> loanEndTime(t, request.durationInDays),
                   interestRate |-> request.interestRate, isRepaid |-> FALSE]
          S1 == [S0 EXCEPT !.totalLoans = @ + 1,
                           !.activeLoans[loanId] = loan,
                           !.loanRequests[requestId].isActive = FALSE,
                           !.requestStatus[requestId] = fundedStatus(S0, requestId)]
          pay == CallBack(S1, request.borrower, value, cb, t)
      IN [err |-> "",
          st |-> Emit(pay.st, [name |-> "LoanFunded", id |-> loanId,
                               args |-> <<requestId, sender, loan.borrower,
                                          loan.loanAmount, loan.collateralTokenId>>]),
          nested |-> pay.nested]

\* repayLoan paying a lender with one callback and refunding a caller with
\* another
repayLoanReentered(S, sender, loanId, value, t, cbLender, cbRefund) ==
    LET S0 == Receive(S, sender, value)
        loan == S0.activeLoans[loanId]
        required == calculateRepayAmount(loan)
        rejected(msg) == [err |-> msg, st |-> Revert(S, msg).st,
                          nested |-> "none", nestedRefund |-> "none"]
    IN
    IF sender # loan.borrower THEN rejected("Only borrower can repay")
    ELSE IF ~LoanOpen(loan) THEN rejected("Loan already closed")
    ELSE IF ~RepayInTime(loan, t) THEN rejected("Loan is expired")
    ELSE IF ~SufficientRepay(value, required) THEN rejected("Insufficient repay amount")
    ELSE
      LET S1 == [S0 EXCEPT !.activeLoans[loanId] = repaidLoan(loan)]
          pay == CallBack(S1, loan.lender, required, cbLender, t)
          refund == IF RefundDue(value, required)
                    THEN CallBack(pay.st, sender, RefundAmount(value, required), cbRefund, t)
                    ELSE [ok |-> TRUE, st |-> pay.st, nested |-> "none"]
          back == releaseCollateral(refund.st, repayRecipient(loan, sender),
                                    loan.collateralTokenId, TRUE)
      IN IF ~CustodianReturned(back) THEN rejected("ERC721: transfer failed")
         ELSE [err |-> "",
               st |-> Emit(back.st, [name |-> "LoanRepaid", id |-> loanId,
                                     args |-> <<loan.borrower, loan.lender, required>>]),
               nested |-> pay.nested, nestedRefund |-> refund.nested]

\* ------------------------------------------------ views
\* getBorrowerRequests: one entry per id of the borrower's index
getBorrowerRequests(S, borrower) ==
    LET ids == S.borrowerRequestIds[borrower] IN
    [requestIds |-> [n \in 1..Len(ids) |-> ids[n]],
     requests |-> [n \in 1..Len(ids) |-> S.loanRequests[ids[n]]]]

\* the loop "for (i = from; i < totalRequests; i++) if (borrower matches)
\* append i and loanRequests[i]" of the scanning revision of the view
RECURSIVE scanBorrowerRequests(_, _, _, _)
scanBorrowerRequests(S, borrower, i, out) ==
    IF ~(i < S.totalRequests) THEN out
    ELSE IF S.loanRequests[i].borrower = borrower
         THEN scanBorrowerRequests(S, borrower, i + 1,
                  [requestIds |-> Append(out.requestIds, i),
                   requests |-> Append(out.requests, S.loanRequests[i])])
         ELSE scanBorrowerRequests(S, borrower, i + 1, out)

getBorrowerRequestsByScan(S, borrower) ==
    scanBorrowerRequests(S, borrower, 0, [requestIds |-> <<>>, requests |-> <<>>])

\* (variant: the array position is stored instead of the loan id)
listedLoanId_position(i, li) == li

\* loanIds[li] = i
listedLoanId(i, li) == i

\* the loop "for (i = from; i < totalLoans; i++) if (!isRepaid) { loanIds[li]
\* = i; loans[li] = activeLoans[i]; li++ }" of getAllActive
RECURSIVE scanOpenLoans(_, _, _)
scanOpenLoans(S, i, out) ==
    IF ~(i < S.totalLoans) THEN out
    ELSE IF ~S.activeLoans[i].isRepaid
         THEN scanOpenLoans(S, i + 1,
                  [loanIds |-> Append(out.loanIds, listedLoanId(i, Len(out.loanIds))),
                   loans |-> Append(out.loans, S.activeLoans[i])])
         ELSE scanOpenLoans(S, i + 1, out)

\* the loop over the requests with isActive set, of getAllActive
RECURSIVE scanActiveRequests(_, _, _)
scanActiveRequests(S, i, out) ==
    IF ~(i < S.totalRequests) THEN out
    ELSE IF S.loanRequests[i].isActive
         THEN scanActiveRequests(S, i + 1,
                  [requestIds |-> Append(out.requestIds, i),
                   requests |-> Append(out.requests, S.loanRequests[i])])
         ELSE scanActiveRequests(S, i + 1, out)

getAllActive(S) ==
    LET open == scanOpenLoans(S, 0, [loanIds |-> <<>>, loans |-> <<>>])
        active == scanActiveRequests(S, 0, [requestIds |-> <<>>, requests |-> <<>>])
    IN [loanIds |-> open.loanIds, loans |-> open.loans,
        requestIds |-> active.requestIds, requests |-> active.requests]

\* ------------------------------------------------ state after deployment
Init ==
    /\ loanRequests = [i \in RequestIds |-> DefaultRequest]
    /\ activeLoans = [i \in LoanIds |-> DefaultLoan]
    /\ totalRequests = 0
    /\ totalLoans = 0
    /\ requestCreatedAt = [i \in RequestIds |-> 0]
    /\ requestStatus = [i \in RequestIds |-> "NONE"]
    /\ borrowerRequestIds = [a \in Accounts |-> <<>>]
    /\ owners = [k \in TokenIds |-> ZeroAddr]
    /\ tokenApprovals = [k \in TokenIds |-> ZeroAddr]
    /\ operatorApprovals = {}
    /\ nextTokenId = 1
    /\ balance = [a \in Holders |-> IF a = Ledger THEN 0 ELSE InitBalance]
    /\ events = <<>>
    /\ now = 1

\* A transaction that returns is a step of the chain: its outcome is
\* committed. A transaction that reverts leaves the chain as it was.
Commit(r) ==
    /\ r.err = ""
    /\ loanRequests' = r.st.loanRequests
    /\ activeLoans' = r.st.activeLoans
    /\ totalRequests' = r.st.totalRequests
    /\ totalLoans' = r.st.totalLoans
    /\ requestCreatedAt' = r.st.requestCreatedAt
    /\ requestStatus' = r.st.requestStatus
    /\ borrowerRequestIds' = r.st.borrowerRequestIds
    /\ owners' = r.st.owners
    /\ tokenApprovals' = r.st.tokenApprovals
    /\ operatorApprovals' = r.st.operatorApprovals
    /\ nextTokenId' = r.st.nextTokenId
    /\ balance' = r.st.balance
    /\ events' = r.st.events
    /\ UNCHANGED now

\* ------------------------------------------------ custodian-side actions
\* TokenNFT.mint()
Mint(a) ==
    /\ nextTokenId <= MaxTokens
    /\ owners' = [owners EXCEPT ![nextTokenId] = a]
    /\ nextTokenId' = nextTokenId + 1
    /\ UNCHANGED <<loanRequests, activeLoans, totalRequests, totalLoans,
                   requestCreatedAt, requestStatus, borrowerRequestIds,
                   tokenApprovals, operatorApprovals, balance, events, now>>

\* ERC721.approve(ledger, tokenId) by the holder
Approve(a, tokenId) ==
    /\ owners[tokenId] = a
    /\ tokenApprovals[tokenId] # Ledger
    /\ tokenApprovals' = [tokenApprovals EXCEPT ![tokenId] = Ledger]
    /\ UNCHANGED <<loanRequests, activeLoans, totalRequests, totalLoans,
                   requestCreatedAt, requestStatus, borrowerRequestIds, owners,
                   operatorApprovals, nextTokenId, balance, events, now>>

\* ERC721.setApprovalForAll(ledger, approved)
SetApprovalForAll(a, approved) ==
    /\ (a \in operatorApprovals) # approved
    /\ operatorApprovals' = IF approved THEN operatorApprovals \cup {a}
                            ELSE operatorApprovals \ {a}
    /\ UNCHANGED <<loanRequests, activeLoans, totalRequests, totalLoans,
                   requestCreatedAt, requestStatus, borrowerRequestIds, owners,
                   tokenApprovals, nextTokenId, balance, events, now>>

\* ------------------------------------------------ the clock
\* The instants at which a time guard of a live record changes its value: the
\* last second of a funding window or of a loan term, and the second after it.
Deadlines ==
    {requestCreatedAt[i] + REQUEST_EXPIRY + d :
         i \in {j \in RequestIds : loanRequests[j].isActive}, d \in {0, 1}}
    \cup {activeLoans[i].endTime + d :
         i \in {j \in LoanIds : j < totalLoans /\ ~activeLoans[j].isRepaid}, d \in {0, 1}}

\* (variant: the passing of time itself expires the lapsed requests)
Tick_sweeping ==
    \E t \in Deadlines :
        /\ t > now
        /\ now' = t
        /\ requestStatus' =
              [i \in RequestIds |->
                  IF loanRequests[i].isActive /\ RequestWindowLapsed(requestCreatedAt[i], t)
                  THEN "EXPIRED" ELSE requestStatus[i]]
        /\ UNCHANGED <<loanRequests, activeLoans, totalRequests, totalLoans,
                       requestCreatedAt, borrowerRequestIds, owners, tokenApprovals,
                       operatorApprovals, nextTokenId, balance, events>>

Tick ==
    /\ \E t \in Deadlines : t > now /\ now' = t
    /\ UNCHANGED state

\* ------------------------------------------------ ledger transactions
Create(a, amount, duration, rate, tokenId, custodianOk) ==
    /\ totalRequests < MaxRequests
    /\ Commit(createLoanRequest(Cur, a, amount, duration, rate, tokenId, now, custodianOk))

Expire(a, requestId, custodianOk) ==
    Commit(expireLoanRequest(Cur, a, requestId, now, custodianOk))

Cancel(a, requestId, custodianOk) ==
    Commit(cancelLoanRequest(Cur, a, requestId, custodianOk))

FundValues(requestId) ==
    LET p == loanRequests[requestId].loanAmount IN {p, p + 1} \cup (IF p > 0 THEN {p - 1} ELSE {})

Fund(a, requestId, value, borrowerAccepts) ==
    /\ value <= balance[a]
    /\ Commit(fundLoanRequest(Cur, a, requestId, value, now, borrowerAccepts))

RepayValues(loanId) ==
    LET q == calculateRepayAmount(activeLoans[loanId]) IN
    {q, q + Overpay} \cup (IF q > 0 THEN {q - 1} ELSE {})

Repay(a, loanId, value, lenderAccepts, refundAccepts, custodianOk) ==
    /\ value <= balance[a]
    /\ Commit(repayLoan(Cur, a, loanId, value, now, lenderAccepts, refundAccepts, custodianOk))

Liquidate(a, loanId, custodianOk) ==
    Commit(liquidateExpiredLoan(Cur, a, loanId, now, custodianOk))

Next ==
    \/ \E a \in Minters : Mint(a)
    \/ \E a \in Accounts, k \in TokenIds : Approve(a, k)
    \/ \E a \in BlanketApprovers, b \in BOOLEAN : SetApprovalForAll(a, b)
    \/ Tick
    \/ \E a \in Accounts, terms \in Terms, k \in TokenIds, f \in {"none", "custodian"} :
          Create(a, terms[1], terms[2], terms[3], k, f # "custodian")
    \/ \E a \in Accounts, i \in RequestIds, f \in {"none", "custodian"} :
          Expire(a, i, f # "custodian")
    \/ \E a \in Accounts, i \in RequestIds, f \in {"none", "custodian"} :
          Cancel(a, i, f # "custodian")
    \/ \E a \in Accounts, i \in RequestIds, f \in {"none", "payee"} :
          \E v \in FundValues(i) : Fund(a, i, v, f # "payee")
    \/ \E a \in Accounts, i \in LoanIds, f \in Faults :
          \E v \in RepayValues(i) :
              Repay(a, i, v, f # "payee", f # "refund", f # "custodian")
    \/ \E a \in Accounts, i \in LoanIds, f \in {"none", "custodian"} :
          Liquidate(a, i, f # "custodian")

Spec == Init /\ [][Next]_vars

\* ------------------------------------------------ callers that keep calling
\* The clock keeps advancing, and for every request some caller keeps
\* trying to expire it (the borrower's page does so whenever it loads its
\* data) on a custodian that does not refuse.
Fairness ==
    /\ WF_vars(Tick)
    /\ \A i \in RequestIds : WF_vars(\E a \in Accounts : Expire(a, i, TRUE))

SpecFair == Init /\ [][Next]_vars /\ Fairness

\* ------------------------------------------------ loans of many terms
\* One request of any principal of Principals at any legal rate, funded by
\* any account and repaid by its borrower: the runs on which the repay
\* amount is computed for each principal and rate.
Principals == {1, 7, 14, 15, 33, 99, 100, 101, 150, 199, 1000000, 1000001}
RateTerms == {<<p, 1, rate>> : p \in Principals, rate \in 1..MAX_INTEREST_RATE}

RepayAmountNext ==
    \/ \E a \in Minters : Mint(a)
    \/ \E a \in Accounts, k \in TokenIds : Approve(a, k)
    \/ \E a \in Minters, terms \in RateTerms, k \in TokenIds :
          totalRequests = 0 /\ Create(a, terms[1], terms[2], terms[3], k, TRUE)
    \/ \E a \in Accounts, i \in RequestIds :
          Fund(a, i, loanRequests[i].loanAmount, TRUE)
    \/ \E a \in Accounts, l \in LoanIds :
          \E v \in RepayValues(l) : Repay(a, l, v, TRUE, TRUE, TRUE)

SpecRepayAmount == Init /\ [][RepayAmountNext]_vars

\* ------------------------------------------------ two items in escrow
\* The registry holds two items, both minted by one borrower who has given
\* the ledger blanket approval; the borrower raises loans of one day and of
\* three days against them, lenders fund them, and they are repaid or
\* liquidated: the runs on which two loans are open at once.
TwoItems == {1, 2}
Lenders == {"bob", "carol"}
OpenTerms == {<<7, 1, 7>>, <<1000000, 3, 5>>}

InitTwoItems ==
    /\ loanRequests = [i \in RequestIds |-> DefaultRequest]
    /\ activeLoans = [i \in LoanIds |-> DefaultLoan]
    /\ totalRequests = 0
    /\ totalLoans = 0
    /\ requestCreatedAt = [i \in RequestIds |-> 0]
    /\ requestStatus = [i \in RequestIds |-> "NONE"]
    /\ borrowerRequestIds = [a \in Accounts |-> <<>>]
    /\ owners = [k \in TwoItems |-> ZeroAddr]
    /\ tokenApprovals = [k \in TwoItems |-> ZeroAddr]
    /\ operatorApprovals = {}
    /\ nextTokenId = 1
    /\ balance = [a \in Holders |-> IF a = Ledger THEN 0 ELSE InitBalance]
    /\ events = <<>>
    /\ now = 1

\* TokenNFT.mint(), for as long as the registry has room
MintItem(a) ==
    /\ nextTokenId \in DOMAIN owners
    /\ owners' = [owners EXCEPT ![nextTokenId] = a]
    /\ nextTokenId' = nextTokenId + 1
    /\ UNCHANGED <<loanRequests, activeLoans, totalRequests, totalLoans,
                   requestCreatedAt, requestStatus, borrowerRequestIds,
                   tokenApprovals, operatorApprovals, balance, events, now>>

TwoItemsNext ==
    \/ \E a \in Minters : MintItem(a)
    \/ \E a \in BlanketApprovers : SetApprovalForAll(a, TRUE)
    \/ Tick
    \/ \E a \in Minters, terms \in OpenTerms, k \in TwoItems :
          Create(a, terms[1], terms[2], terms[3], k, TRUE)
    \/ \E a \in Lenders, i \in RequestIds :
          Fund(a, i, loanRequests[i].loanAmount, TRUE)
    \/ \E a \in Minters, l \in LoanIds :
          Repay(a, l, calculateRepayAmount(activeLoans[l]), TRUE, TRUE, TRUE)
    \/ \E a \in Lenders, l \in LoanIds : Liquidate(a, l, TRUE)

SpecTwoItems == InitTwoItems /\ [][TwoItemsNext]_vars

\* ------------------------------------------------ recipients that call back
\* The accounts are contracts whose code, on receiving value from the
\* ledger, may make one call to the ledger: the runs with nested calls.
ReenterValues ==
    {0} \cup {loanRequests[i].loanAmount : i \in RequestIds}
        \cup {calculateRepayAmount(loanRequests[i]) : i \in RequestIds}

Callbacks ==
    {Accept}
    \cup {Callback(fn, id, 0) : fn \in {"cancel", "expire", "liquidate"}, id \in RequestIds}
    \cup {Callback(fn, id, v) : fn \in {"fund", "repay"}, id \in RequestIds,
                                v \in ReenterValues}

FundReentered(a, requestId, cb) ==
    /\ loanRequests[requestId].loanAmount <= balance[a]
    /\ Commit(fundLoanRequestReentered(Cur, a, requestId,
                                       loanRequests[requestId].loanAmount, now, cb))

RepayReentered(a, loanId, value, cbLender, cbRefund) ==
    /\ value <= balance[a]
    /\ Commit(repayLoanReentered(Cur, a, loanId, value, now, cbLender, cbRefund))

ReentrantNext ==
    \/ \E a \in Minters : Mint(a)
    \/ \E a \in Accounts, k \in TokenIds : Approve(a, k)
    \/ Tick
    \/ \E a \in Accounts, terms \in OpenTerms, k \in TokenIds :
          Create(a, terms[1], terms[2], terms[3], k, TRUE)
    \/ \E a \in Accounts, i \in RequestIds : Expire(a, i, TRUE)
    \/ \E a \in Accounts, i \in RequestIds : Cancel(a, i, TRUE)
    \/ \E a \in Accounts, i \in RequestIds, cb \in Callbacks : FundReentered(a, i, cb)
    \/ \E a \in Accounts, l \in LoanIds, cb \in Callbacks :
          \E v \in {calculateRepayAmount(activeLoans[l]),
                     calculateRepayAmount(activeLoans[l]) + Overpay} :
              \/ RepayReentered(a, l, v, cb, Accept)
              \/ RepayReentered(a, l, v, Accept, cb)
    \/ \E a \in Accounts, l \in LoanIds : Liquidate(a, l, TRUE)

SpecReentrant == Init /\ [][ReentrantNext]_vars

\* =====================================================================
\* Properties
\* =====================================================================
ExistingRequests == {i \in RequestIds : i < totalRequests}
ExistingLoans == {i \in LoanIds : i < totalLoans}
OpenLoans == {i \in ExistingLoans : ~activeLoans[i].isRepaid}

\* the step appends exactly one event, of this name and about this record
Emitted(name, id) ==
    /\ Len(events') = Len(events) + 1
    /\ SubSeq(events', 1, Len(events)) = events
    /\ events'[Len(events')].name = name
    /\ events'[Len(events')].id = id

\* the request a loan was funded from, as the LoanFunded event records it
RequestOf(l) ==
    CHOOSE i \in RequestIds :
        \E n \in 1..Len(events) :
            events[n].name = "LoanFunded" /\ events[n].id = l /\ events[n].args[1] = i

\* the value balances after amount went from one party to another
Moved(bal, from, to, amount) ==
    [[bal EXCEPT ![from] = @ - amount] EXCEPT ![to] = @ + amount]

\* ---------------------------------------------------------------------
\* C1: the custodian's holder of the collateral is the ledger for every
\* Request whose status is Active and for every loan that is not closed,
\* and a step that funds a request leaves every item's holder unchanged.
C1_EscrowedState ==
    /\ \A i \in ExistingRequests :
          requestStatus[i] = "ACTIVE" =>
              owners[loanRequests[i].collateralTokenId] = Ledger
    /\ \A l \in OpenLoans : owners[activeLoans[l].collateralTokenId] = Ledger

C1_FundKeepsCustody ==
    \A i \in RequestIds :
        (requestStatus[i] = "ACTIVE" /\ requestStatus'[i] = "FUNDED") =>
            (owners' = owners /\ owners'[loanRequests[i].collateralTokenId] = Ledger)

C1_CollateralHeldByLedger == []C1_EscrowedState /\ [][C1_FundKeepsCustody]_vars

C1_Witness ==
    \E l \in OpenLoans :
        /\ owners[activeLoans[l].collateralTokenId] = Ledger
        /\ \E i \in ExistingRequests :
              /\ requestStatus[i] = "FUNDED"
              /\ loanRequests[i].collateralTokenId = activeLoans[l].collateralTokenId

\* ---------------------------------------------------------------------
\* C2: a fund whose forwarding to the borrower fails aborts as a whole
\* (request still Active, no loan created, loan counter and balances as
\* before), and a step that makes a request Funded pays its borrower
\* exactly the principal out of the funder's value.
C2_FailedPayoutAborts ==
    \A a \in Accounts, i \in RequestIds :
        \A v \in FundValues(i) :
            LET r == fundLoanRequest(Cur, a, i, v, now, FALSE) IN
            v <= balance[a] =>
                /\ r.err # ""
                /\ r.st.requestStatus[i] = requestStatus[i]
                /\ r.st.loanRequests[i].isActive = loanRequests[i].isActive
                /\ r.st.activeLoans = activeLoans
                /\ r.st.totalLoans = totalLoans
                /\ r.st.balance = balance

C2_FundedStepPays ==
    \A i \in RequestIds :
        (requestStatus[i] = "ACTIVE" /\ requestStatus'[i] = "FUNDED") =>
            LET request == loanRequests[i]
                lender == activeLoans'[totalLoans].lender
            IN /\ totalLoans' = totalLoans + 1
               /\ balance' = Moved(balance, lender, request.borrower, request.loanAmount)
               /\ balance'[Ledger] = balance[Ledger]

C2_FundedMeansPaid == []C2_FailedPayoutAborts /\ [][C2_FundedStepPays]_vars

C2_Witness ==
    \E i \in ExistingRequests :
        /\ requestStatus[i] = "FUNDED"
        /\ balance[loanRequests[i].borrower] = InitBalance + loanRequests[i].loanAmount
        /\ totalLoans = 1

\* ---------------------------------------------------------------------
\* C3: a repay in which the payment to the lender, the refund of the
\* excess or the return of the collateral fails is rejected, and leaves the
\* loan open, the collateral with the ledger and every balance as it was.
C3_Applies(f, v, l) ==
    f = "refund" => v > calculateRepayAmount(activeLoans[l])

C3_RepayAllOrNothing ==
    \A a \in Accounts, l \in LoanIds, f \in Faults \ {"none"} :
        \A v \in RepayValues(l) :
            LET clean == repayLoan(Cur, a, l, v, now, TRUE, TRUE, TRUE)
                r == repayLoan(Cur, a, l, v, now, f # "payee", f # "refund", f # "custodian")
            IN (v <= balance[a] /\ clean.err = "" /\ C3_Applies(f, v, l)) =>
                  /\ r.err # ""
                  /\ r.st.activeLoans[l].isRepaid = FALSE
                  /\ r.st.owners[activeLoans[l].collateralTokenId] = Ledger
                  /\ r.st.balance = balance
                  /\ r.st = Cur

\* an open loan whose borrower can repay now with an excess to refund
C3_Witness ==
    \E l \in OpenLoans :
        LET loan == activeLoans[l]
            v == calculateRepayAmount(loan) + Overpay
        IN /\ v <= balance[loan.borrower]
           /\ repayLoan(Cur, loan.borrower, l, v, now, TRUE, TRUE, TRUE).err = ""
           /\ repayLoan(Cur, loan.borrower, l, v, now, TRUE, FALSE, TRUE).err = "Refund failed"

\* ---------------------------------------------------------------------
\* C4: a cancel, expire or liquidate whose collateral transfer fails is
\* rejected with the record's status as before, and every step that makes a
\* request Cancelled or Expired, or a loan closed, moves its collateral out
\* of the ledger.
C4_FailedTransferAborts ==
    /\ \A a \in Accounts, i \in RequestIds :
          LET c == cancelLoanRequest(Cur, a, i, FALSE)
              e == expireLoanRequest(Cur, a, i, now, FALSE)
          IN /\ c.err # "" /\ c.st.requestStatus = requestStatus
                           /\ c.st.loanRequests = loanRequests
             /\ e.err # "" /\ e.st.requestStatus = requestStatus
                           /\ e.st.loanRequests = loanRequests
    /\ \A a \in Accounts, l \in LoanIds :
          LET q == liquidateExpiredLoan(Cur, a, l, now, FALSE)
          IN q.err # "" /\ q.st.activeLoans = activeLoans

C4_StatusFlipMovesCollateral ==
    /\ \A i \in RequestIds :
          (requestStatus'[i] # requestStatus[i]
             /\ requestStatus'[i] \in {"CANCELLED", "EXPIRED"}) =>
              LET k == loanRequests[i].collateralTokenId
              IN owners[k] = Ledger /\ owners'[k] # Ledger
    /\ \A l \in ExistingLoans :
          (~activeLoans[l].isRepaid /\ activeLoans'[l].isRepaid) =>
              LET k == activeLoans[l].collateralTokenId
              IN owners[k] = Ledger /\ owners'[k] # Ledger

C4_NoFlipWithoutTransfer ==
    []C4_FailedTransferAborts /\ [][C4_StatusFlipMovesCollateral]_vars

\* a cancelled request and a liquidated loan whose collateral went to the lender
C4_Witness ==
    /\ \E i \in ExistingRequests : requestStatus[i] = "CANCELLED"
    /\ \E l \in ExistingLoans :
          /\ activeLoans[l].isRepaid
          /\ activeLoans[l].lender # activeLoans[l].borrower
          /\ owners[activeLoans[l].collateralTokenId] = activeLoans[l].lender

\* ---------------------------------------------------------------------
\* C5: an existing Request changes status only from Active, and only to
\* Funded in a fund step, to Cancelled in a cancel step or to Expired in an
\* expire step; a Funded, Cancelled or Expired request keeps its status.
C5_RequestTransition ==
    \A i \in ExistingRequests :
        requestStatus'[i] # requestStatus[i] =>
            /\ requestStatus[i] = "ACTIVE"
            /\ \/ /\ requestStatus'[i] = "FUNDED"
                  /\ Emitted("LoanFunded", totalLoans)
                  /\ events'[Len(events')].args[1] = i
               \/ /\ requestStatus'[i] = "CANCELLED"
                  /\ Emitted("LoanRequestCancelled", i)
               \/ /\ requestStatus'[i] = "EXPIRED"
                  /\ Emitted("LoanRequestExpired", i)

C5_TerminalStatusForever == [][C5_RequestTransition]_vars

\* a funded request and an expired one, with the steps made after them
C5_Witness ==
    /\ totalRequests = 2
    /\ requestStatus[0] = "FUNDED"
    /\ requestStatus[1] = "EXPIRED"

\* ---------------------------------------------------------------------
\* C6: a loan's closed flag never goes back to false; the step that sets it
\* is one repay (collateral to the borrower, repayAmount from the borrower
\* to the lender and nothing else) or one liquidate (collateral to the
\* lender, no value moved), and moves that one collateral item only.
C6_LoanTransition ==
    \A l \in ExistingLoans :
        LET loan == activeLoans[l]
            k == loan.collateralTokenId
            q == calculateRepayAmount(loan)
        IN /\ loan.isRepaid => activeLoans'[l].isRepaid
           /\ (~loan.isRepaid /\ activeLoans'[l].isRepaid) =>
                 /\ owners[k] = Ledger
                 /\ \/ /\ Emitted("LoanRepaid", l)
                       /\ owners' = [owners EXCEPT ![k] = loan.borrower]
                       /\ balance' = Moved(balance, loan.borrower, loan.lender, q)
                    \/ /\ Emitted("LoanLiquidated", l)
                       /\ owners' = [owners EXCEPT ![k] = loan.lender]
                       /\ balance' = balance

C6_ClosedOnceByRepayOrLiquidate == [][C6_LoanTransition]_vars

\* a loan closed by liquidation, its collateral with a lender who is not the borrower
C6_Witness ==
    \E l \in ExistingLoans :
        /\ activeLoans[l].isRepaid
        /\ events[Len(events)].name = "LoanLiquidated"
        /\ activeLoans[l].lender # activeLoans[l].borrower
        /\ owners[activeLoans[l].collateralTokenId] = activeLoans[l].lender

\* ---------------------------------------------------------------------
\* C7: for every open loan, at the current instant and at every later
\* instant around its deadline, the borrower's repay of the repay amount is
\* accepted iff the instant is <= deadline (else "Loan is expired") and the
\* lender's liquidate is accepted iff the instant is > deadline (else "Loan
\* not expired"); past the deadline no repay by anyone is accepted.
C7_Instants(l) ==
    {t \in {now, activeLoans[l].endTime - 1, activeLoans[l].endTime,
            activeLoans[l].endTime + 1, activeLoans[l].endTime + DAY} : t >= now}

C7_DeadlineSplitsRepayAndLiquidate ==
    \A l \in OpenLoans :
        \A t \in C7_Instants(l) :
            LET loan == activeLoans[l]
                q == calculateRepayAmount(loan)
                rp == repayLoan(Cur, loan.borrower, l, q, t, TRUE, TRUE, TRUE)
                lq == liquidateExpiredLoan(Cur, loan.lender, l, t, TRUE)
            IN /\ t <= loan.endTime =>
                    /\ q <= balance[loan.borrower] => rp.err = ""
                    /\ lq.err = "Loan not expired"
               /\ t > loan.endTime =>
                    /\ rp.err = "Loan is expired"
                    /\ lq.err = ""
                    /\ \A a \in Accounts : \A v \in RepayValues(l) :
                          repayLoan(Cur, a, l, v, t, TRUE, TRUE, TRUE).err # ""

\* an open loan one second past its deadline
C7_Witness ==
    \E l \in OpenLoans :
        /\ now = activeLoans[l].endTime + 1
        /\ activeLoans[l].lender # activeLoans[l].borrower

\* ---------------------------------------------------------------------
\* C8: for every Active request, at the current instant and at every later
\* instant around the end of its window, fund with the exact principal is
\* accepted iff the instant is <= createdAt + 172800 (else "Request
\* expired") and expire is accepted iff the instant is > createdAt + 172800
\* (else "Not expired yet"); so never both.
C8_Instants(i) ==
    {t \in {now, requestCreatedAt[i] + 172800 - 1, requestCreatedAt[i] + 172800,
            requestCreatedAt[i] + 172800 + 1} : t >= now}

C8_WindowSplitsFundAndExpire ==
    \A i \in ExistingRequests :
        requestStatus[i] = "ACTIVE" =>
            \A t \in C8_Instants(i), a \in Accounts :
                LET p == loanRequests[i].loanAmount
                    fd == fundLoanRequest(Cur, a, i, p, t, TRUE)
                    ex == expireLoanRequest(Cur, a, i, t, TRUE)
                IN /\ t <= requestCreatedAt[i] + 172800 =>
                        /\ p <= balance[a] => fd.err = ""
                        /\ ex.err = "Not expired yet"
                   /\ t > requestCreatedAt[i] + 172800 =>
                        /\ fd.err = "Request expired"
                        /\ ex.err = ""
                   /\ ~(fd.err = "" /\ ex.err = "")

\* an Active request one second past its funding window
C8_Witness ==
    \E i \in ExistingRequests :
        /\ requestStatus[i] = "ACTIVE"
        /\ now = requestCreatedAt[i] + 172800 + 1

\* ---------------------------------------------------------------------
\* C9: on an Active request whose window has lapsed, expire is accepted
\* from every caller, and makes the request's borrower (not the caller) the
\* holder of the collateral.
C9_AnyoneExpiresToBorrower ==
    \A i \in ExistingRequests :
        (requestStatus[i] = "ACTIVE" /\ now > requestCreatedAt[i] + REQUEST_EXPIRY) =>
            \A a \in Accounts :
                LET r == expireLoanRequest(Cur, a, i, now, TRUE)
                    k == loanRequests[i].collateralTokenId
                IN /\ r.err = ""
                   /\ r.st.requestStatus[i] = "EXPIRED"
                   /\ r.st.owners[k] = loanRequests[i].borrower
                   /\ a # loanRequests[i].borrower => r.st.owners[k] # a

\* a lapsed Active request of a borrower who is not the only account
C9_Witness ==
    \E i \in ExistingRequests :
        /\ requestStatus[i] = "ACTIVE"
        /\ now > requestCreatedAt[i] + REQUEST_EXPIRY
        /\ owners[loanRequests[i].collateralTokenId] = Ledger
        /\ Accounts \ {loanRequests[i].borrower} # {}

\* ---------------------------------------------------------------------
\* C10 (as stated): whenever a Request leaves Active, for Funded, Cancelled
\* or Expired, the holder of its collateral after the step is not the ledger.
C10_LeavingActiveReleases ==
    [][\A i \in RequestIds :
          (requestStatus[i] = "ACTIVE" /\ requestStatus'[i] # "ACTIVE") =>
              owners'[loanRequests[i].collateralTokenId] # Ledger]_vars

\* C10 (amended): whenever a Request goes from Active to Cancelled or
\* Expired, the holder of its collateral after the step is its borrower, not
\* the ledger; when it goes from Active to Funded, the holder stays the ledger.
C10_Transition ==
    \A i \in RequestIds :
        LET k == loanRequests[i].collateralTokenId IN
        /\ (requestStatus[i] = "ACTIVE" /\ requestStatus'[i] \in {"CANCELLED", "EXPIRED"}) =>
              (owners'[k] = loanRequests[i].borrower /\ owners'[k] # Ledger)
        /\ (requestStatus[i] = "ACTIVE" /\ requestStatus'[i] = "FUNDED") =>
              owners'[k] = Ledger

C10_CancelExpireReleaseFundKeeps == [][C10_Transition]_vars

\* an expired request whose collateral is back with its borrower
C10_Witness ==
    \E i \in ExistingRequests :
        /\ requestStatus[i] = "EXPIRED"
        /\ owners[loanRequests[i].collateralTokenId] = loanRequests[i].borrower

\* ---------------------------------------------------------------------
\* C11 (as stated): on an Active request, a fund with any value other than
\* the principal is rejected and leaves the request Active; a fund that is
\* accepted was sent exactly the principal, raises the borrower's balance
\* by exactly the principal and lowers the funder's by exactly the principal.
C11_FundExactValueRaisesBorrower ==
    \A i \in ExistingRequests :
        requestStatus[i] = "ACTIVE" =>
            \A a \in Accounts : \A v \in FundValues(i) :
                LET request == loanRequests[i]
                    p == request.loanAmount
                    r == fundLoanRequest(Cur, a, i, v, now, TRUE)
                IN v <= balance[a] =>
                     /\ v # p => (r.err # "" /\ r.st.requestStatus[i] = "ACTIVE")
                     /\ r.err = "" =>
                           /\ v = p
                           /\ r.st.balance[request.borrower] = balance[request.borrower] + p
                           /\ r.st.balance[a] = balance[a] - p

\* C11 (amended): on an Active request, a fund with any value other than
\* the principal is rejected ("Must send exact loan amount" while the window
\* is open) and leaves the request Active; a fund that is accepted was sent
\* exactly the principal and moves exactly the principal from the funder to
\* the borrower: when the funder is another account the borrower's balance
\* rises and the funder's falls by the principal, and when the borrower funds
\* their own request every balance is as before.
C11_FundExactValueMovesPrincipal ==
    \A i \in ExistingRequests :
        requestStatus[i] = "ACTIVE" =>
            \A a \in Accounts : \A v \in FundValues(i) :
                LET request == loanRequests[i]
                    p == request.loanAmount
                    r == fundLoanRequest(Cur, a, i, v, now, TRUE)
                IN v <= balance[a] =>
                     /\ v # p =>
                           /\ r.err # ""
                           /\ r.st.requestStatus[i] = "ACTIVE"
                           /\ r.st = Cur
                           /\ FundWindowOpen(requestCreatedAt[i], now) =>
                                 r.err = "Must send exact loan amount"
                     /\ r.err = "" =>
                           /\ v = p
                           /\ r.st.requestStatus[i] = "FUNDED"
                           /\ r.st.balance = Moved(balance, a, request.borrower, p)
                           /\ a # request.borrower =>
                                 /\ r.st.balance[request.borrower] = balance[request.borrower] + p
                                 /\ r.st.balance[a] = balance[a] - p
                           /\ a = request.borrower => r.st.balance = balance

\* an Active request in its window that another account and its own borrower
\* can both fund, and for which one unit more or less is refused
C11_Witness ==
    \E i \in ExistingRequests : \E a \in Accounts :
        LET request == loanRequests[i]
            p == request.loanAmount
        IN /\ requestStatus[i] = "ACTIVE"
           /\ a # request.borrower
           /\ p + 1 <= balance[a]
           /\ fundLoanRequest(Cur, a, i, p, now, TRUE).err = ""
           /\ fundLoanRequest(Cur, request.borrower, i, p, now, TRUE).err = ""
           /\ fundLoanRequest(Cur, a, i, p + 1, now, TRUE).err = "Must send exact loan amount"
           /\ fundLoanRequest(Cur, a, i, p - 1, now, TRUE).err = "Must send exact loan amount"

\* ---------------------------------------------------------------------
\* C12 (as stated): a repay that is accepted was sent at least the repay
\* amount, raises the lender's balance by exactly the repay amount, lowers
\* the caller's by exactly the repay amount (the excess comes back), closes
\* the loan and makes the borrower the holder of the collateral.
C12_RepayRaisesLender ==
    \A l \in OpenLoans : \A a \in Accounts : \A v \in RepayValues(l) :
        LET loan == activeLoans[l]
            q == calculateRepayAmount(loan)
            r == repayLoan(Cur, a, l, v, now, TRUE, TRUE, TRUE)
        IN (v <= balance[a] /\ r.err = "") =>
              /\ v >= q
              /\ r.st.balance[loan.lender] = balance[loan.lender] + q
              /\ r.st.balance[a] = balance[a] - q
              /\ r.st.activeLoans[l].isRepaid
              /\ r.st.owners[loan.collateralTokenId] = loan.borrower

\* C12 (amended): a repay that is accepted was sent at least the repay
\* amount and moves exactly the repay amount from the caller to the lender,
\* the excess coming back to the caller and nothing staying with the ledger:
\* when the lender is another account its balance rises and the caller's
\* falls by the repay amount, and when the borrower is their own lender every
\* balance is as before; the loan becomes closed and the borrower becomes the
\* holder of the collateral.
C12_RepayMovesRepayAmount ==
    \A l \in OpenLoans : \A a \in Accounts : \A v \in RepayValues(l) :
        LET loan == activeLoans[l]
            q == calculateRepayAmount(loan)
            r == repayLoan(Cur, a, l, v, now, TRUE, TRUE, TRUE)
        IN (v <= balance[a] /\ r.err = "") =>
              /\ v >= q
              /\ a = loan.borrower
              /\ r.st.balance = Moved(balance, a, loan.lender, q)
              /\ r.st.balance[Ledger] = balance[Ledger]
              /\ loan.lender # a =>
                    /\ r.st.balance[loan.lender] = balance[loan.lender] + q
                    /\ r.st.balance[a] = balance[a] - q
              /\ loan.lender = a => r.st.balance = balance
              /\ r.st.activeLoans[l].isRepaid
              /\ r.st.owners[loan.collateralTokenId] = loan.borrower

\* an open loan of 1_000_000 at 5% from another account, whose borrower can
\* repay now with 1_100_000: the lender gets 1_050_000 and 50_000 come back
C12_Witness ==
    \E l \in OpenLoans :
        LET loan == activeLoans[l]
            r == repayLoan(Cur, loan.borrower, l, 1100000, now, TRUE, TRUE, TRUE)
        IN /\ loan.lender # loan.borrower
           /\ calculateRepayAmount(loan) = 1050000
           /\ 1100000 <= balance[loan.borrower]
           /\ r.err = ""
           /\ r.st.balance[loan.lender] = balance[loan.lender] + 1050000
           /\ r.st.balance[loan.borrower] = balance[loan.borrower] - 1050000

\* ---------------------------------------------------------------------
\* C13: on an open loan, a repay by anyone but the borrower ("Only borrower
\* can repay") or with less than the repay amount ("Insufficient repay
\* amount" when the borrower sends it in time) is rejected, whatever the
\* recipients and the custodian would do, and leaves the loan open, the
\* collateral with the ledger and the whole state as it was.
C13_RepayRejectsStrangerAndShortfall ==
    \A l \in OpenLoans : \A a \in Accounts : \A v \in RepayValues(l) \cup {0} :
        \A f \in Faults :
            LET loan == activeLoans[l]
                q == calculateRepayAmount(loan)
                r == repayLoan(Cur, a, l, v, now, f # "payee", f # "refund", f # "custodian")
            IN (a # loan.borrower \/ v < q) =>
                  /\ r.err # ""
                  /\ a # loan.borrower => r.err = "Only borrower can repay"
                  /\ (a = loan.borrower /\ RepayInTime(loan, now)) =>
                        r.err = "Insufficient repay amount"
                  /\ ~r.st.activeLoans[l].isRepaid
                  /\ r.st.owners[loan.collateralTokenId] = Ledger
                  /\ r.st = Cur

\* an open loan in its term that the borrower could repay in full, with
\* another account that could afford it too
C13_Witness ==
    \E l \in OpenLoans : \E a \in Accounts :
        LET loan == activeLoans[l]
            q == calculateRepayAmount(loan)
        IN /\ a # loan.borrower
           /\ q <= balance[a] /\ q <= balance[loan.borrower]
           /\ repayLoan(Cur, loan.borrower, l, q, now, TRUE, TRUE, TRUE).err = ""
           /\ repayLoan(Cur, a, l, q, now, TRUE, TRUE, TRUE).err = "Only borrower can repay"
           /\ repayLoan(Cur, loan.borrower, l, q - 1, now, TRUE, TRUE, TRUE).err
                 = "Insufficient repay amount"

\* ---------------------------------------------------------------------
\* C14: a liquidate that is accepted is on an open loan, strictly after its
\* deadline and from its lender, and makes the lender the holder of the
\* collateral and the loan closed; on an open loan a call at or before the
\* deadline is rejected with "Loan not expired" whoever makes it, a call by
\* anyone but the lender is rejected, and the lender's call after the
\* deadline is accepted.
C14_Instants(l) ==
    {t \in {now, activeLoans[l].endTime, activeLoans[l].endTime + 1} : t >= now}

C15_Lapsed(l) ==
    now > activeLoans[l].startTimestamp + loanRequests[RequestOf(l)].durationInDays * 86400

C16_RepayAmountIsPrincipalPlusFloor ==
    \A l \in OpenLoans :
        LET loan == activeLoans[l]
            principal == loan.loanAmount
            rate == loan.interestRate
            amount == getRepayAmount(Cur, l)
            interest == amount.value - principal
        IN /\ principal > 0
           /\ rate \in 1..7
           /\ amount.err = ""
           /\ 100 * interest <= principal * rate
           /\ principal * rate < 100 * (interest + 1)
           /\ (principal = 1000000 /\ rate = 5) => amount.value = 1050000
           /\ (principal = 7 /\ rate = 7) => amount.value = 7
           /\ LET exact == repayLoan(Cur, loan.borrower, l, amount.value, now, TRUE, TRUE, TRUE)
                   short == repayLoan(Cur, loan.borrower, l, amount.value - 1, now, TRUE, TRUE, TRUE)
               IN (RepayInTime(loan, now) /\ amount.value <= balance[loan.borrower]) =>
                     (exact.err = "" /\ short.err = "Insufficient repay amount")

\* an open loan of 7 at 7% (interest rounds down to 0) after which the
\* borrower's repay of 7 is accepted
C16_Witness ==
    \E l \in OpenLoans :
        /\ activeLoans[l].loanAmount = 7
        /\ activeLoans[l].interestRate = 7
        /\ getRepayAmount(Cur, l).value = 7
        /\ repayLoan(Cur, activeLoans[l].borrower, l, 7, now, TRUE, TRUE, TRUE).err = ""

\* ---------------------------------------------------------------------
\* C17: on a Request that is Funded, Cancelled or Expired every cancel,
\* expire and fund is rejected, and on a closed loan every repay and
\* liquidate is rejected, by whom and with what value it is called and
\* whatever the recipients and the custodian would do; the rejected call
\* leaves the records, the holders and the balances (the whole state) as
\* they were.
C17_TerminalRecordsRejectCalls ==
    /\ \A i \in ExistingRequests :
          requestStatus[i] \in {"FUNDED", "CANCELLED", "EXPIRED"} =>
              \A a \in Accounts, ok \in BOOLEAN :
                  LET c == cancelLoanRequest(Cur, a, i, ok)
                      e == expireLoanRequest(Cur, a, i, now, ok)
                  IN /\ c.err # "" /\ c.st = Cur
                     /\ e.err # "" /\ e.st = Cur
                     /\ \A v \in FundValues(i) :
                           LET f == fundLoanRequest(Cur, a, i, v, now, ok)
                           IN f.err # "" /\ f.st = Cur
    /\ \A l \in ExistingLoans :
          activeLoans[l].isRepaid =>
              \A a \in Accounts, f \in Faults :
                  LET q == liquidateExpiredLoan(Cur, a, l, now, f # "custodian")
                  IN /\ q.err = "Loan already closed" /\ q.st = Cur
                     /\ \A v \in RepayValues(l) :
                           LET r == repayLoan(Cur, a, l, v, now,
                                              f # "payee", f # "refund", f # "custodian")
                           IN /\ r.err # "" /\ r.st = Cur
                              /\ a = activeLoans[l].borrower => r.err = "Loan already closed"

\* a loan repaid before its deadline whose borrower has put the same item in
\* escrow again, so that a second repay would find the item with the ledger
C17_Witness ==
    \E l \in ExistingLoans : \E i \in ExistingRequests :
        LET loan == activeLoans[l] IN
        /\ loan.isRepaid
        /\ RepayInTime(loan, now)
        /\ owners[loan.collateralTokenId] = Ledger
        /\ calculateRepayAmount(loan) <= balance[loan.borrower]
        /\ requestStatus[i] = "FUNDED"
        /\ cancelLoanRequest(Cur, loanRequests[i].borrower, i, TRUE).err = "Request is not active"

\* ---------------------------------------------------------------------
\* C18: whenever a create is accepted, the cancel of the new request by the
\* same caller right after it is accepted too, and after it the holder of
\* the collateral is the caller, as before the create, and every balance
\* is what it was before the create; and in every run, the step that
\* cancels a request hands its collateral to its borrower, and neither that
\* step nor the step that created the request changes any balance.
C18_CreateThenCancel ==
    \A a \in Accounts, terms \in Terms, k \in TokenIds :
        LET c == createLoanRequest(Cur, a, terms[1], terms[2], terms[3], k, now, TRUE)
            x == cancelLoanRequest(c.st, a, totalRequests, TRUE)
        IN c.err = "" =>
              /\ owners[k] = a
              /\ c.st.owners[k] = Ledger
              /\ c.st.balance = balance
              /\ x.err = ""
              /\ x.st.requestStatus[totalRequests] = "CANCELLED"
              /\ x.st.owners[k] = a
              /\ x.st.owners = owners
              /\ x.st.balance = balance

C18_CreateAndCancelSteps ==
    \A i \in RequestIds :
        /\ (requestStatus[i] = "NONE" /\ requestStatus'[i] = "ACTIVE") =>
              /\ balance' = balance
              /\ owners[loanRequests'[i].collateralTokenId] = loanRequests'[i].borrower
        /\ (requestStatus[i] = "ACTIVE" /\ requestStatus'[i] = "CANCELLED") =>
              /\ balance' = balance
              /\ owners'[loanRequests[i].collateralTokenId] = loanRequests[i].borrower

C18_CreateCancelRoundTrip == []C18_CreateThenCancel /\ [][C18_CreateAndCancelSteps]_vars

\* a request was created and then cancelled: its item is back with its
\* borrower and every account holds what it held at the start
C18_Witness ==
    /\ Len(events) = 2
    /\ events[1].name = "LoanRequestCreated"
    /\ events[2].name = "LoanRequestCancelled"
    /\ events[2].id = events[1].id
    /\ owners[loanRequests[events[1].id].collateralTokenId] = loanRequests[events[1].id].borrower
    /\ \A a \in Accounts : balance[a] = InitBalance

\* ---------------------------------------------------------------------
\* C19: a create with principal 0, duration 0, rate 0 or rate above 7 is
\* rejected with the error of the first rule it breaks, whoever calls it,
\* whether or not the caller holds and has authorized the item and whatever
\* the custodian would do; no Request is appended, the next request id is
\* unchanged and so is every item's holder (the whole state).
C19_Amounts == {0, 7, 1000000}
C19_Durations == {0, 1, 3}
C19_Rates == {0, 1, 7, 8, 100}

C19_InvalidCreateRejected ==
    \A a \in Accounts, k \in TokenIds, ok \in BOOLEAN :
        \A amount \in C19_Amounts, duration \in C19_Durations, rate \in C19_Rates :
            LET r == createLoanRequest(Cur, a, amount, duration, rate, k, now, ok)
            IN (amount = 0 \/ duration = 0 \/ rate = 0 \/ rate > 7) =>
                  /\ r.err # ""
                  /\ amount = 0 => r.err = "Loan amount must be greater than 0"
                  /\ (amount > 0 /\ duration = 0) => r.err = "Duration must be greater than 0"
                  /\ (amount > 0 /\ duration > 0) => r.err = "Invalid interest rate"
                  /\ r.st.totalRequests = totalRequests
                  /\ r.st.loanRequests = loanRequests
                  /\ r.st.requestStatus = requestStatus
                  /\ r.st.owners = owners
                  /\ r.st = Cur

\* the holder of an authorized item, whose create at 7% is accepted and at 8%
\* is not
C19_Witness ==
    \E a \in Accounts, k \in TokenIds :
        /\ owners[k] = a
        /\ createLoanRequest(Cur, a, 1000000, 3, 7, k, now, TRUE).err = ""
        /\ createLoanRequest(Cur, a, 1000000, 3, 8, k, now, TRUE).err = "Invalid interest rate"
        /\ createLoanRequest(Cur, a, 0, 3, 7, k, now, TRUE).err # ""

\* ---------------------------------------------------------------------
\* C20: a create that is accepted was called by the holder of the item, who
\* had authorized the ledger for it (for the item or for all items); it
\* leaves the new Request Active and the ledger holding the item. A create by
\* anyone else is rejected with "Not owner of NFT", and by a holder who has
\* not authorized the ledger with "NFT not approved". In every run, the step
\* that creates a request starts with the borrower holding and having
\* authorized the item and ends with the ledger holding it.
C20_CreateCall ==
    \A a \in Accounts, terms \in Terms, k \in TokenIds :
        LET r == createLoanRequest(Cur, a, terms[1], terms[2], terms[3], k, now, TRUE)
            valid == terms[1] > 0 /\ terms[2] > 0 /\ terms[3] \in 1..7
            authorized == tokenApprovals[k] = Ledger \/ a \in operatorApprovals
        IN /\ r.err = "" =>
                 /\ owners[k] = a
                 /\ authorized
                 /\ r.st.totalRequests = totalRequests + 1
                 /\ r.st.requestStatus[totalRequests] = "ACTIVE"
                 /\ r.st.loanRequests[totalRequests].isActive
                 /\ r.st.loanRequests[totalRequests].borrower = a
                 /\ r.st.loanRequests[totalRequests].collateralTokenId = k
                 /\ r.st.owners[k] = Ledger
           /\ (valid /\ owners[k] \notin {a, ZeroAddr}) => r.err = "Not owner of NFT"
           /\ (valid /\ owners[k] = a /\ ~authorized) => r.err = "NFT not approved"

C20_CreateStep ==
    \A i \in RequestIds :
        (requestStatus[i] = "NONE" /\ requestStatus'[i] # "NONE") =>
            LET request == loanRequests'[i]
                k == request.collateralTokenId
            IN /\ i = totalRequests
               /\ requestStatus'[i] = "ACTIVE"
               /\ owners[k] = request.borrower
               /\ tokenApprovals[k] = Ledger \/ request.borrower \in operatorApprovals
               /\ owners'[k] = Ledger

C20_CreateNeedsHolderAndApproval == []C20_CreateCall /\ [][C20_CreateStep]_vars

\* a request created under a blanket authorization only, its item now held
\* by the ledger, while another account's create of the same item is refused
C20_Witness ==
    \E i \in ExistingRequests :
        LET request == loanRequests[i] IN
        /\ requestStatus[i] = "ACTIVE"
        /\ owners[request.collateralTokenId] = Ledger
        /\ request.borrower \in operatorApprovals
        /\ events[Len(events)].name = "LoanRequestCreated"
        /\ events[Len(events)].id = i
        /\ \E a \in Accounts \ {request.borrower} :
              createLoanRequest(Cur, a, 1000000, 3, 5, request.collateralTokenId, now, TRUE).err
                  = "Not owner of NFT"

\* ---------------------------------------------------------------------
\* C21: on a request id that was never assigned, every fund, cancel and
\* expire is rejected ("Request is not active"), and on a loan id that was
\* never assigned every repay ("Only borrower can repay") and liquidate
\* ("Loan not expired" at instant 0, else "Only lender can liquidate") is
\* rejected, for every caller, value, instant and behaviour of the
\* recipients and the custodian; the state is left as it was.
C21_Instants == {0, now, now + REQUEST_EXPIRY + 1}
C21_Values == {0, 7, 1000000}

C21_UnassignedIdsRejected ==
    /\ \A i \in RequestIds \ ExistingRequests :
          \A a \in Accounts, t \in C21_Instants, ok \in BOOLEAN :
              LET c == cancelLoanRequest(Cur, a, i, ok)
                  e == expireLoanRequest(Cur, a, i, t, ok)
              IN /\ c.err = "Request is not active" /\ c.st = Cur
                 /\ e.err = "Request is not active" /\ e.st = Cur
                 /\ \A v \in C21_Values :
                       LET f == fundLoanRequest(Cur, a, i, v, t, ok)
                       IN f.err = "Request is not active" /\ f.st = Cur
    /\ \A l \in LoanIds \ ExistingLoans :
          \A a \in Accounts, t \in C21_Instants, ok \in BOOLEAN :
              LET q == liquidateExpiredLoan(Cur, a, l, t, ok)
              IN /\ q.err = (IF t = 0 THEN "Loan not expired" ELSE "Only lender can liquidate")
                 /\ q.st = Cur
                 /\ \A v \in C21_Values :
                       LET r == repayLoan(Cur, a, l, v, t, ok, ok, ok)
                       IN r.err = "Only borrower can repay" /\ r.st = Cur

\* one request and one loan exist, time has passed, and the ids after them
\* are refused while the assigned loan can be liquidated
C21_Witness ==
    /\ totalRequests = 1
    /\ totalLoans = 1
    /\ liquidateExpiredLoan(Cur, activeLoans[0].lender, 0, now, TRUE).err = ""
    /\ liquidateExpiredLoan(Cur, activeLoans[0].lender, 1, now, TRUE).err
          = "Only lender can liquidate"
    /\ cancelLoanRequest(Cur, loanRequests[0].borrower, 1, TRUE).err = "Request is not active"

\* ---------------------------------------------------------------------
\* C22: a cancel that is accepted is on an Active request and from its
\* borrower; on an Active request a cancel by any other caller is rejected
\* with "Only borrower can cancel", whatever the custodian would do, and
\* leaves the request Active and its collateral with the ledger; the
\* borrower's cancel is accepted.
C22_CancelOnlyByBorrower ==
    \A i \in RequestIds : \A a \in Accounts :
        LET request == loanRequests[i]
            c == cancelLoanRequest(Cur, a, i, TRUE)
            refused == cancelLoanRequest(Cur, a, i, FALSE)
        IN /\ c.err = "" =>
                 /\ i \in ExistingRequests
                 /\ requestStatus[i] = "ACTIVE"
                 /\ a = request.borrower
                 /\ c.st.requestStatus[i] = "CANCELLED"
           /\ (requestStatus[i] = "ACTIVE" /\ a # request.borrower) =>
                 /\ c.err = "Only borrower can cancel"
                 /\ refused.err = "Only borrower can cancel"
                 /\ c.st.requestStatus[i] = "ACTIVE"
                 /\ c.st.loanRequests[i].isActive
                 /\ c.st.owners[request.collateralTokenId] = Ledger
                 /\ c.st = Cur
           /\ (requestStatus[i] = "ACTIVE" /\ a = request.borrower) => c.err = ""

\* an Active request whose borrower can cancel it and another account cannot
C22_Witness ==
    \E i \in ExistingRequests : \E a \in Accounts :
        /\ requestStatus[i] = "ACTIVE"
        /\ a # loanRequests[i].borrower
        /\ owners[loanRequests[i].collateralTokenId] = Ledger
        /\ cancelLoanRequest(Cur, a, i, TRUE).err = "Only borrower can cancel"
        /\ cancelLoanRequest(Cur, loanRequests[i].borrower, i, TRUE).err = ""

\* ---------------------------------------------------------------------
\* C23: every create, expire, cancel, fund, repay and liquidate that is
\* rejected, for whatever reason, returns with the Request and loan
\* records, both id counters, the per-borrower index, every item's holder
\* and authorization and every balance as they were before the call.
C23_SameState(r) ==
    r.err # "" =>
        /\ r.st.loanRequests = loanRequests
        /\ r.st.requestStatus = requestStatus
        /\ r.st.requestCreatedAt = requestCreatedAt
        /\ r.st.activeLoans = activeLoans
        /\ r.st.totalRequests = totalRequests
        /\ r.st.totalLoans = totalLoans
        /\ r.st.borrowerRequestIds = borrowerRequestIds
        /\ r.st.owners = owners
        /\ r.st.tokenApprovals = tokenApprovals
        /\ r.st.operatorApprovals = operatorApprovals
        /\ r.st.balance = balance
        /\ r.st.events = events

C24_ClockStep ==
    /\ now' # now => (now' > now /\ state' = state)
    /\ ((\E i \in RequestIds : requestStatus'[i] # requestStatus[i])
          \/ (\E l \in LoanIds : activeLoans'[l].isRepaid # activeLoans[l].isRepaid)) =>
          /\ now' = now
          /\ Len(events') = Len(events) + 1
          /\ events'[Len(events')].name \in
                {"LoanRequestCreated", "LoanRequestCancelled", "LoanRequestExpired",
                 "LoanFunded", "LoanRepaid", "LoanLiquidated"}

C24_ClockAloneChangesNothing == [][C24_ClockStep]_vars

\* a request was expired by a call, and now a loan is past its deadline and
\* still open, nobody having called since it was funded
C24_Witness ==
    /\ \E i \in ExistingRequests : requestStatus[i] = "EXPIRED"
    /\ \E l \in OpenLoans :
          /\ now > activeLoans[l].endTime
          /\ requestStatus[RequestOf(l)] = "FUNDED"
          /\ events[Len(events)].name = "LoanFunded"

\* ---------------------------------------------------------------------
\* C25: the n-th create that is accepted gets request id n-1 and the n-th
\* fund that is accepted gets loan id n-1 (as the event log records them);
\* the next request id is the number of Requests ever created and the next
\* loan id the number of loans ever created; neither counter decreases; a
\* rejected create leaves the next request id as it was; and the two
\* counters are independent: a create does not move the loan counter, nor
\* a fund the request counter.
C25_Created == SelectSeq(events, LAMBDA e : e.name = "LoanRequestCreated")
C25_Funded == SelectSeq(events, LAMBDA e : e.name = "LoanFunded")

C25_IdsInOrder ==
    /\ Len(C25_Created) = totalRequests
    /\ \A n \in 1..Len(C25_Created) : C25_Created[n].id = n - 1
    /\ Len(C25_Funded) = totalLoans
    /\ \A n \in 1..Len(C25_Funded) : C25_Funded[n].id = n - 1
    /\ \A i \in RequestIds : (i < totalRequests) <=> (requestStatus[i] # "NONE")
    /\ \A l \in LoanIds : (l < totalLoans) <=> (activeLoans[l].borrower # ZeroAddr)

C25_Calls ==
    /\ \A a \in Accounts, terms \in Terms, k \in TokenIds, ok \in BOOLEAN :
          LET r == createLoanRequest(Cur, a, terms[1], terms[2], terms[3], k, now, ok)
          IN /\ r.err # "" => r.st.totalRequests = totalRequests
             /\ r.err = "" =>
                   /\ r.st.totalRequests = totalRequests + 1
                   /\ r.st.requestStatus[totalRequests] = "ACTIVE"
                   /\ r.st.events[Len(r.st.events)].id = totalRequests
                   /\ r.st.totalLoans = totalLoans
    /\ \A a \in Accounts, i \in RequestIds :
          LET r == fundLoanRequest(Cur, a, i, loanRequests[i].loanAmount, now, TRUE)
          IN r.err = "" =>
                /\ r.st.totalLoans = totalLoans + 1
                /\ r.st.activeLoans[totalLoans].lender = a
                /\ r.st.events[Len(r.st.events)].id = totalLoans
                /\ r.st.totalRequests = totalRequests

C25_CountersStep ==
    /\ totalRequests' \in {totalRequests, totalRequests + 1}
    /\ totalLoans' \in {totalLoans, totalLoans + 1}
    /\ \A i \in ExistingRequests : requestStatus'[i] # "NONE"

C25_IdsSequential == [](C25_IdsInOrder /\ C25_Calls) /\ [][C25_CountersStep]_vars

\* two requests were created and the second one was funded: loan 0 comes
\* from request 1
C25_Witness ==
    /\ totalRequests = 2
    /\ totalLoans = 1
    /\ requestStatus[0] \in {"CANCELLED", "EXPIRED"}
    /\ requestStatus[1] = "FUNDED"
    /\ RequestOf(0) = 1

\* ---------------------------------------------------------------------
\* C26: the next loan id (the number of loan records) equals the number of
\* Requests whose status is Funded, and the loans correspond one to one to
\* the Funded requests; a step changes the loan counter iff it makes
\* exactly one Request Funded, and then it adds exactly one loan.
C26_FundedRequests == {i \in ExistingRequests : requestStatus[i] = "FUNDED"}

C26_Count ==
    /\ totalLoans = Cardinality(C26_FundedRequests)
    /\ Cardinality(ExistingLoans) = totalLoans
    /\ \A l \in ExistingLoans : RequestOf(l) \in C26_FundedRequests
    /\ \A l, m \in ExistingLoans : RequestOf(l) = RequestOf(m) => l = m

C26_Step ==
    LET newlyFunded == {i \in RequestIds :
                           requestStatus[i] # "FUNDED" /\ requestStatus'[i] = "FUNDED"}
    IN /\ totalLoans' - totalLoans = Cardinality(newlyFunded)
       /\ Cardinality(newlyFunded) <= 1
       /\ \A l \in LoanIds :
             (activeLoans[l].borrower = ZeroAddr /\ activeLoans'[l].borrower # ZeroAddr) =>
                 (l = totalLoans /\ Cardinality(newlyFunded) = 1)

C26_OneLoanPerFundedRequest == []C26_Count /\ [][C26_Step]_vars

\* two loans exist, funded from two different requests
C26_Witness ==
    /\ totalLoans = 2
    /\ requestStatus[0] = "FUNDED"
    /\ requestStatus[1] = "FUNDED"
    /\ RequestOf(0) # RequestOf(1)

\* ---------------------------------------------------------------------
\* C27: a fund that is accepted creates a loan whose borrower, principal,
\* collateral and rate are those of the funded Request, whose lender is the
\* caller, whose start time is the instant of the call and whose deadline
\* is start time + durationDays * 86400; every existing loan, open or
\* closed, still has exactly these values; and no step changes any field of
\* an existing loan other than its closed flag.
C27_CopiedFrom(loan, request) ==
    /\ loan.borrower = request.borrower
    /\ loan.loanAmount = request.loanAmount
    /\ loan.collateralTokenId = request.collateralTokenId
    /\ loan.interestRate = request.interestRate
    /\ loan.endTime = loan.startTimestamp + request.durationInDays * 86400

C27_FundCall ==
    \A a \in Accounts, i \in RequestIds :
        LET r == fundLoanRequest(Cur, a, i, loanRequests[i].loanAmount, now, TRUE)
            loan == r.st.activeLoans[totalLoans]
        IN r.err = "" =>
              /\ C27_CopiedFrom(loan, loanRequests[i])
              /\ loan.lender = a
              /\ loan.startTimestamp = now
              /\ ~loan.isRepaid
              /\ \A l \in LoanIds \ {totalLoans} : r.st.activeLoans[l] = activeLoans[l]

C27_LoansMatchRequests ==
    \A l \in ExistingLoans :
        /\ C27_CopiedFrom(activeLoans[l], loanRequests[RequestOf(l)])
        /\ activeLoans[l].lender \in Accounts
        /\ activeLoans[l].startTimestamp <= now

C27_LoanFieldsKept ==
    \A l \in ExistingLoans :
        [activeLoans'[l] EXCEPT !.isRepaid = FALSE] = [activeLoans[l] EXCEPT !.isRepaid = FALSE]

C27_LoanCopiedAndImmutable ==
    [](C27_FundCall /\ C27_LoansMatchRequests) /\ [][C27_LoanFieldsKept]_vars

\* a loan of three days funded by another account and closed by liquidation,
\* its fields still those of its request
C27_Witness ==
    \E l \in ExistingLoans :
        LET loan == activeLoans[l] IN
        /\ loan.isRepaid
        /\ loan.lender # loan.borrower
        /\ owners[loan.collateralTokenId] = loan.lender
        /\ loan.endTime = loan.startTimestamp + 3 * 86400
        /\ C27_CopiedFrom(loan, loanRequests[RequestOf(l)])

\* ---------------------------------------------------------------------
\* C28: no step removes a Request or changes its borrower, principal,
\* duration, rate, collateral or creation time: cancel, expire and fund
\* change only its status (and the active flag that goes with it); so every
\* existing Request, whatever its status, still carries the values its
\* creation event recorded.
C28_CreationEvent(i) ==
    CHOOSE e \in {events[n] : n \in 1..Len(events)} :
        e.name = "LoanRequestCreated" /\ e.id = i

C28_AsCreated ==
    \A i \in ExistingRequests :
        LET request == loanRequests[i]
            given == C28_CreationEvent(i).args
        IN /\ request.borrower = given[1]
           /\ request.loanAmount = given[2]
           /\ request.durationInDays = given[3]
           /\ request.interestRate = given[4]
           /\ request.collateralTokenId = given[5]
           /\ requestCreatedAt[i] = given[6]
           /\ request.collateralTokenId \in TokenIds
           /\ request.isActive <=> requestStatus[i] = "ACTIVE"

C28_RequestFieldsKept ==
    \A i \in ExistingRequests :
        /\ [loanRequests'[i] EXCEPT !.isActive = FALSE]
              = [loanRequests[i] EXCEPT !.isActive = FALSE]
        /\ requestCreatedAt'[i] = requestCreatedAt[i]
        /\ requestStatus'[i] # "NONE"
        /\ i < totalRequests'

C29_IndexEqualsScan ==
    \A b \in Accounts :
        LET view == getBorrowerRequests(Cur, b)
            ids == view.requestIds
        IN /\ view = getBorrowerRequestsByScan(Cur, b)
           /\ {ids[n] : n \in 1..Len(ids)}
                 = {i \in ExistingRequests : loanRequests[i].borrower = b}
           /\ \A m, n \in 1..Len(ids) : m < n => ids[m] < ids[n]
           /\ Len(view.requests) = Len(ids)
           /\ \A n \in 1..Len(ids) : view.requests[n] = loanRequests[ids[n]]

\* two borrowers: one with a request that is no longer Active, the other
\* with the request made after it
C29_Witness ==
    \E b, c \in Accounts :
        /\ b # c
        /\ getBorrowerRequests(Cur, b).requestIds = <<0>>
        /\ getBorrowerRequests(Cur, c).requestIds = <<1>>
        /\ requestStatus[0] = "FUNDED"
        /\ requestStatus[1] = "ACTIVE"

\* ---------------------------------------------------------------------
\* C30: getAllActive lists exactly the loans whose closed flag is false, in
\* ascending id order, with loans[k] the record of loanIds[k]: a loan closed
\* by repay or liquidate is not listed, and an open loan past its deadline
\* is.
C30_OpenLoansListed ==
    LET view == getAllActive(Cur)
        ids == view.loanIds
    IN /\ {ids[k] : k \in 1..Len(ids)} = {l \in ExistingLoans : ~activeLoans[l].isRepaid}
       /\ \A j, k \in 1..Len(ids) : j < k => ids[j] < ids[k]
       /\ Len(view.loans) = Len(ids)
       /\ \A k \in 1..Len(ids) : view.loans[k] = activeLoans[ids[k]]
       /\ \A l \in ExistingLoans : activeLoans[l].isRepaid =>
             \A k \in 1..Len(ids) : ids[k] # l
       /\ \A l \in ExistingLoans :
             (~activeLoans[l].isRepaid /\ now > activeLoans[l].endTime) =>
                 \E k \in 1..Len(ids) : ids[k] = l

\* two loans are open and listed in id order, the first of them past its
\* deadline and not liquidated
C30_Witness ==
    /\ getAllActive(Cur).loanIds = <<0, 1>>
    /\ now > activeLoans[0].endTime
    /\ now <= activeLoans[1].endTime
    /\ ~activeLoans[0].isRepaid

\* one loan was closed and is no longer listed, the loan after it is
C30_WitnessClosed ==
    /\ getAllActive(Cur).loanIds = <<1>>
    /\ activeLoans[0].isRepaid

\* ---------------------------------------------------------------------
\* C31: every call that returns appends exactly one event, of the kind of
\* the call and carrying the id of the record it changed, and a call that
\* is rejected appends none; so the log has exactly one entry per
\* transition of a record, and the entries are in the order in which the
\* transitions happened: a record's creation before its end.
C31_Logged(r, name, id) ==
    IF r.err = ""
    THEN /\ Len(r.st.events) = Len(events) + 1
         /\ SubSeq(r.st.events, 1, Len(events)) = events
         /\ r.st.events[Len(r.st.events)].name = name
         /\ r.st.events[Len(r.st.events)].id = id
    ELSE r.st.events = events

C31_CallsLog ==
    /\ \A a \in Accounts, terms \in Terms, k \in TokenIds, ok \in BOOLEAN :
          LET r == createLoanRequest(Cur, a, terms[1], terms[2], terms[3], k, now, ok)
          IN /\ C31_Logged(r, "LoanRequestCreated", totalRequests)
             /\ r.err = "" => r.st.requestStatus[totalRequests] # requestStatus[totalRequests]
    /\ \A a \in Accounts, i \in RequestIds, ok \in BOOLEAN :
          /\ LET r == expireLoanRequest(Cur, a, i, now, ok)
             IN /\ C31_Logged(r, "LoanRequestExpired", i)
                /\ r.err = "" => r.st.requestStatus[i] # requestStatus[i]
          /\ LET r == cancelLoanRequest(Cur, a, i, ok)
             IN /\ C31_Logged(r, "LoanRequestCancelled", i)
                /\ r.err = "" => r.st.requestStatus[i] # requestStatus[i]
          /\ \A v \in FundValues(i) :
                LET r == fundLoanRequest(Cur, a, i, v, now, ok)
                IN /\ C31_Logged(r, "LoanFunded", totalLoans)
                   /\ r.err = "" =>
                         /\ r.st.events[Len(r.st.events)].args[1] = i
                         /\ r.st.requestStatus[i] # requestStatus[i]
                         /\ r.st.activeLoans[totalLoans] # activeLoans[totalLoans]
    /\ \A a \in Accounts, l \in LoanIds, f \in Faults :
          /\ LET r == liquidateExpiredLoan(Cur, a, l, now, f # "custodian")
             IN /\ C31_Logged(r, "LoanLiquidated", l)
                /\ r.err = "" => r.st.activeLoans[l] # activeLoans[l]
          /\ \A v \in RepayValues(l) :
                LET r == repayLoan(Cur, a, l, v, now,
                                   f # "payee", f # "refund", f # "custodian")
                IN /\ C31_Logged(r, "LoanRepaid", l)
                   /\ r.err = "" => r.st.activeLoans[l] # activeLoans[l]

\* the transitions made so far: a creation per request, a departure from
\* Active per request that is no longer Active, a closure per closed loan
C31_Transitions ==
    totalRequests
    + Cardinality({i \in ExistingRequests : requestStatus[i] # "ACTIVE"})
    + Cardinality({l \in ExistingLoans : activeLoans[l].isRepaid})

C31_OneEntryPerTransition == Len(events) = C31_Transitions

\* the entries of a record are in the order of its transitions
C31_InOrder ==
    \A m, n \in 1..Len(events) :
        /\ (/\ events[m].name = "LoanRequestCreated"
            /\ \/ /\ events[n].name \in {"LoanRequestCancelled", "LoanRequestExpired"}
                  /\ events[n].id = events[m].id
               \/ /\ events[n].name = "LoanFunded"
                  /\ events[n].args[1] = events[m].id) => m < n
        /\ (/\ events[m].name = "LoanFunded"
            /\ events[n].name \in {"LoanRepaid", "LoanLiquidated"}
            /\ events[n].id = events[m].id) => m < n

C31_LogInTransitionOrder ==
    /\ C31_CallsLog
    /\ C31_OneEntryPerTransition
    /\ C31_InOrder

\* ---------------------------------------------------------------------
\* C32: the ledger retains no value. Every call, returning or rejected,
\* leaves the ledger's own balance as it was: a fund that returns forwards
\* all of the value sent to the borrower, a repay that returns pays the
\* repay amount to the lender and the rest of the value sent back to the
\* caller. The ledger's balance, zero at deployment, is zero in every state.
C32_LedgerKeeps(r) == r.st.balance[Ledger] = balance[Ledger]

C32_CallsKeepLedgerBalance ==
    /\ \A a \in Accounts, terms \in Terms, k \in TokenIds, ok \in BOOLEAN :
          C32_LedgerKeeps(createLoanRequest(Cur, a, terms[1], terms[2], terms[3], k, now, ok))
    /\ \A a \in Accounts, i \in RequestIds, ok \in BOOLEAN :
          /\ C32_LedgerKeeps(expireLoanRequest(Cur, a, i, now, ok))
          /\ C32_LedgerKeeps(cancelLoanRequest(Cur, a, i, ok))
          /\ \A v \in FundValues(i) :
                LET r == fundLoanRequest(Cur, a, i, v, now, ok) IN
                v <= balance[a] =>
                    /\ C32_LedgerKeeps(r)
                    /\ r.err = "" =>
                          r.st.balance = Moved(balance, a, loanRequests[i].borrower, v)
    /\ \A a \in Accounts, l \in LoanIds, f \in Faults :
          /\ C32_LedgerKeeps(liquidateExpiredLoan(Cur, a, l, now, f # "custodian"))
          /\ \A v \in RepayValues(l) :
                LET r == repayLoan(Cur, a, l, v, now,
                                   f # "payee", f # "refund", f # "custodian")
                    q == calculateRepayAmount(activeLoans[l])
                IN v <= balance[a] =>
                    /\ C32_LedgerKeeps(r)
                    /\ r.err = "" =>
                          r.st.balance = Moved(balance, a, activeLoans[l].lender, q)

C32_LedgerBalanceZero == balance[Ledger] = 0

C32_Step == balance'[Ledger] = balance[Ledger]

C32_LedgerRetainsNoValue ==
    /\ []C32_LedgerBalanceZero
    /\ []C32_CallsKeepLedgerBalance
    /\ [][C32_Step]_vars

\* a loan was funded by another account and then repaid: value has passed
\* through the ledger twice and none of it stayed there
C32_Witness ==
    \E l \in ExistingLoans :
        LET loan == activeLoans[l]
            q == calculateRepayAmount(loan)
        IN /\ loan.isRepaid
           /\ loan.lender # loan.borrower
           /\ balance[loan.lender] = InitBalance - loan.loanAmount + q
           /\ balance[loan.borrower] = InitBalance + loan.loanAmount - q
           /\ balance[Ledger] = 0
           /\ \E n \in 1..Len(events) : events[n].name = "LoanRepaid" /\ events[n].id = l

\* ---------------------------------------------------------------------
\* C33: every collateral item is referenced by at most one live record (a
\* Request whose status is Active, or a loan that is not closed); the
\* holder of an item, whether or not the item was in escrow before, can
\* escrow it in a fresh Request once the ledger is approved, and a create
\* changes no record that existed before it.
C33_LiveRecords(k) ==
    {<<"request", i>> : i \in {j \in ExistingRequests :
                                  /\ requestStatus[j] = "ACTIVE"
                                  /\ loanRequests[j].collateralTokenId = k}}
    \cup {<<"loan", l>> : l \in {j \in OpenLoans : activeLoans[j].collateralTokenId = k}}

C33_AtMostOneLiveRecord ==
    \A k \in DOMAIN owners : Cardinality(C33_LiveRecords(k)) <= 1

\* the item was handed out of escrow earlier: an earlier record names it
C33_WasEscrowed(k) ==
    \E i \in ExistingRequests : loanRequests[i].collateralTokenId = k

C33_HolderCanEscrowAgain ==
    \A k \in DOMAIN owners, a \in Accounts :
        (owners[k] = a /\ LedgerAuthorized(Cur, a, k)) =>
            LET r == createLoanRequest(Cur, a, 7, 1, 7, k, now, TRUE) IN
            /\ r.err = ""
            /\ r.st.owners[k] = Ledger
            /\ r.st.requestStatus[totalRequests] = "ACTIVE"
            /\ r.st.loanRequests[totalRequests].collateralTokenId = k
            /\ r.st.loanRequests[totalRequests].borrower = a
            /\ r.st.activeLoans = activeLoans
            /\ \A j \in ExistingRequests :
                  /\ r.st.loanRequests[j] = loanRequests[j]
                  /\ r.st.requestStatus[j] = requestStatus[j]
                  /\ r.st.requestCreatedAt[j] = requestCreatedAt[j]

C33_CreateStep ==
    totalRequests' # totalRequests =>
        /\ activeLoans' = activeLoans
        /\ \A j \in ExistingRequests :
              /\ loanRequests'[j] = loanRequests[j]
              /\ requestStatus'[j] = requestStatus[j]
              /\ requestCreatedAt'[j] = requestCreatedAt[j]

C33_ItemInOneLiveRecord ==
    /\ []C33_AtMostOneLiveRecord
    /\ []C33_HolderCanEscrowAgain
    /\ [][C33_CreateStep]_vars

\* the item of a liquidated loan is in escrow again, for a fresh Request of
\* the lender who seized it; the first request and its loan are as they were
C33_Witness ==
    /\ totalRequests = 2
    /\ requestStatus[0] = "FUNDED"
    /\ activeLoans[0].isRepaid
    /\ activeLoans[0].lender # activeLoans[0].borrower
    /\ requestStatus[1] = "ACTIVE"
    /\ loanRequests[1].borrower = activeLoans[0].lender
    /\ loanRequests[1].collateralTokenId = activeLoans[0].collateralTokenId
    /\ C33_WasEscrowed(loanRequests[1].collateralTokenId)
    /\ C33_LiveRecords(loanRequests[1].collateralTokenId) = {<<"request", 1>>}
    /\ owners[loanRequests[1].collateralTokenId] = Ledger

\* ---------------------------------------------------------------------
\* C34: an item in escrow leaves the ledger only to the borrower of its
\* live record, by a cancel, an expire or a repay, or to the lender of its
\* loan, by a liquidate after the deadline; no call to the ledger and no
\* transfer on the custodian by another identity makes that identity, or
\* anyone else, its holder.
C34_Recipients(k) ==
    {loanRequests[i].borrower :
         i \in {j \in ExistingRequests : /\ requestStatus[j] = "ACTIVE"
                                         /\ loanRequests[j].collateralTokenId = k}}
    \cup {activeLoans[l].borrower :
         l \in {j \in OpenLoans : activeLoans[j].collateralTokenId = k}}
    \cup {activeLoans[l].lender :
         l \in {j \in OpenLoans : /\ activeLoans[j].collateralTokenId = k
                                  /\ now > activeLoans[j].endTime}}

C34_Allowed(r) ==
    \A k \in DOMAIN owners :
        owners[k] = Ledger => r.st.owners[k] \in {Ledger} \cup C34_Recipients(k)

C34_CallsReleaseToParties ==
    /\ \A a \in Accounts, terms \in Terms, k \in TokenIds, ok \in BOOLEAN :
          C34_Allowed(createLoanRequest(Cur, a, terms[1], terms[2], terms[3], k, now, ok))
    /\ \A a \in Accounts, i \in RequestIds, ok \in BOOLEAN :
          /\ C34_Allowed(expireLoanRequest(Cur, a, i, now, ok))
          /\ C34_Allowed(cancelLoanRequest(Cur, a, i, ok))
          /\ \A v \in FundValues(i) :
                C34_Allowed(fundLoanRequest(Cur, a, i, v, now, ok))
    /\ \A a \in Accounts, l \in LoanIds, f \in Faults :
          /\ C34_Allowed(liquidateExpiredLoan(Cur, a, l, now, f # "custodian"))
          /\ \A v \in RepayValues(l) :
                C34_Allowed(repayLoan(Cur, a, l, v, now,
                                      f # "payee", f # "refund", f # "custodian"))
    /\ \A a \in Accounts, to \in Accounts, k \in DOMAIN owners :
          owners[k] = Ledger => ~transferFrom(Cur, a, Ledger, to, k, TRUE).ok

C34_Step ==
    \A k \in DOMAIN owners :
        (owners[k] = Ledger /\ owners'[k] # Ledger) =>
            \/ \E i \in ExistingRequests :
                  /\ requestStatus[i] = "ACTIVE"
                  /\ loanRequests[i].collateralTokenId = k
                  /\ owners'[k] = loanRequests[i].borrower
                  /\ Emitted("LoanRequestCancelled", i) \/ Emitted("LoanRequestExpired", i)
            \/ \E l \in OpenLoans :
                  /\ activeLoans[l].collateralTokenId = k
                  /\ \/ /\ owners'[k] = activeLoans[l].borrower
                        /\ Emitted("LoanRepaid", l)
                     \/ /\ owners'[k] = activeLoans[l].lender
                        /\ Emitted("LoanLiquidated", l)
                        /\ now > activeLoans[l].endTime

C34_EscrowLeavesToPartiesOnly ==
    /\ []C34_CallsReleaseToParties
    /\ [][C34_Step]_vars

\* an overdue open loan whose item is in escrow: the third account gets
\* every call it makes on the loan and its request rejected, the borrower
\* can no longer repay, and the lender's liquidate hands the item to the
\* lender
C34_Witness ==
    \E l \in OpenLoans : \E a \in Accounts :
        LET loan == activeLoans[l]
            k == loan.collateralTokenId
        IN /\ a \notin {loan.borrower, loan.lender}
           /\ loan.lender # loan.borrower
           /\ owners[k] = Ledger
           /\ now > loan.endTime
           /\ liquidateExpiredLoan(Cur, a, l, now, TRUE).err = "Only lender can liquidate"
           /\ repayLoan(Cur, a, l, 0, now, TRUE, TRUE, TRUE).err = "Only borrower can repay"
           /\ cancelLoanRequest(Cur, a, RequestOf(l), TRUE).err # ""
           /\ expireLoanRequest(Cur, a, RequestOf(l), now, TRUE).err # ""
           /\ liquidateExpiredLoan(Cur, loan.lender, l, now, TRUE).st.owners[k] = loan.lender

\* ---------------------------------------------------------------------
\* C35: a recipient that calls back into the ledger while it is being paid
\* gets every nested fund, cancel or expire on the request being funded,
\* and every nested repay or liquidate on the loan being repaid, rejected,
\* and the outer call ends as it does with a recipient that only accepts;
\* no request is funded twice, no loan is closed twice and no record's item
\* is released twice.
C35_NestedRejected(nested) == nested \notin {"none", "returned"}

C35_FundCallbacks(i) ==
    {Callback(fn, i, 0) : fn \in {"cancel", "expire"}}
    \cup {Callback("fund", i, v) : v \in ReenterValues}

C35_RepayCallbacks(l) ==
    {Callback("liquidate", l, 0)} \cup {Callback("repay", l, v) : v \in ReenterValues}

C35_NestedCallsRejected ==
    /\ \A a \in Accounts, i \in RequestIds :
          LET v == loanRequests[i].loanAmount
              plain == fundLoanRequestReentered(Cur, a, i, v, now, Accept)
          IN (v <= balance[a] /\ plain.err = "") =>
                \A cb \in C35_FundCallbacks(i) :
                    LET r == fundLoanRequestReentered(Cur, a, i, v, now, cb) IN
                    /\ r.err = ""
                    /\ C35_NestedRejected(r.nested)
                    /\ cb.value <= plain.st.balance[loanRequests[i].borrower] =>
                          r.nested = "Request is not active"
                    /\ r.st = plain.st
    /\ \A a \in Accounts, l \in LoanIds :
          \A v \in {calculateRepayAmount(activeLoans[l]),
                    calculateRepayAmount(activeLoans[l]) + Overpay} :
              LET plain == repayLoanReentered(Cur, a, l, v, now, Accept, Accept)
              IN (v <= balance[a] /\ plain.err = "") =>
                    \A cb \in C35_RepayCallbacks(l) :
                        LET viaLender == repayLoanReentered(Cur, a, l, v, now, cb, Accept)
                            viaRefund == repayLoanReentered(Cur, a, l, v, now, Accept, cb)
                        IN /\ viaLender.err = ""
                           /\ C35_NestedRejected(viaLender.nested)
                           /\ viaLender.st = plain.st
                           /\ viaRefund.err = ""
                           /\ RefundDue(v, calculateRepayAmount(activeLoans[l])) =>
                                 C35_NestedRejected(viaRefund.nestedRefund)
                           /\ viaRefund.st = plain.st

C35_EventsOf(names, id) ==
    {n \in 1..Len(events) : events[n].name \in names /\ events[n].id = id}

C35_NothingTwice ==
    /\ \A i \in RequestIds :
          Cardinality({n \in 1..Len(events) :
                          events[n].name = "LoanFunded" /\ events[n].args[1] = i}) <= 1
    /\ \A i \in RequestIds :
          Cardinality(C35_EventsOf({"LoanRequestCancelled", "LoanRequestExpired"}, i))
          + Cardinality({n \in 1..Len(events) :
                            events[n].name = "LoanFunded" /\ events[n].args[1] = i}) <= 1
    /\ \A l \in LoanIds :
          Cardinality(C35_EventsOf({"LoanRepaid", "LoanLiquidated"}, l)) <= 1
    /\ totalLoans = Cardinality({i \in ExistingRequests : requestStatus[i] = "FUNDED"})

\* a step takes an item out of the ledger at most once for a record: the
\* record it leaves is no longer live
C35_ReleaseStep ==
    \A k \in DOMAIN owners :
        (owners[k] = Ledger /\ owners'[k] # Ledger) =>
            /\ \A i \in RequestIds :
                  loanRequests'[i].collateralTokenId = k => requestStatus'[i] # "ACTIVE"
            /\ \A l \in LoanIds :
                  (l < totalLoans' /\ activeLoans'[l].collateralTokenId = k) =>
                      activeLoans'[l].isRepaid

C35_ReentrancyHarmless ==
    /\ []C35_NestedCallsRejected
    /\ []C35_NothingTwice
    /\ [][C35_ReleaseStep]_vars

\* an open loan in its term whose borrower overpays: the lender's nested
\* liquidate and the refunded borrower's nested repay are both rejected
\* because the loan is already marked closed, and the repay returns
C35_Witness ==
    \E l \in OpenLoans :
        LET loan == activeLoans[l]
            q == calculateRepayAmount(loan)
            viaLender == repayLoanReentered(Cur, loan.borrower, l, q + Overpay, now,
                                            Callback("liquidate", l, 0), Accept)
            viaRefund == repayLoanReentered(Cur, loan.borrower, l, q + Overpay, now,
                                            Accept, Callback("repay", l, q))
        IN /\ loan.lender # loan.borrower
           /\ q + Overpay <= balance[loan.borrower]
           /\ viaLender.err = "" /\ viaLender.nested = "Loan already closed"
           /\ viaRefund.err = "" /\ viaRefund.nestedRefund = "Loan already closed"
           /\ viaRefund.st.activeLoans[l].isRepaid
           /\ viaRefund.st.owners[loan.collateralTokenId] = loan.borrower

\* ---------------------------------------------------------------------
\* C36: the borrower's cancel of an Active request is accepted at every
\* clock value, within the funding window and after it, while expire is
\* rejected until the window has lapsed; once it has, cancel by the
\* borrower and expire by any caller are both accepted, and each of them
\* leaves a state in which the other is rejected.
C36_CancelAtAnyTime ==
    \A i \in ExistingRequests :
        requestStatus[i] = "ACTIVE" =>
            LET request == loanRequests[i]
                cancelled == cancelLoanRequest(Cur, request.borrower, i, TRUE)
            IN /\ cancelled.err = ""
               /\ cancelled.st.requestStatus[i] = "CANCELLED"
               /\ \A a \in Accounts :
                     LET expired == expireLoanRequest(Cur, a, i, now, TRUE) IN
                     IF now > requestCreatedAt[i] + REQUEST_EXPIRY
                     THEN /\ expired.err = ""
                          /\ expired.st.requestStatus[i] = "EXPIRED"
                          /\ cancelLoanRequest(expired.st, request.borrower, i, TRUE).err
                                = "Request is not active"
                          /\ \A b \in Accounts :
                                expireLoanRequest(cancelled.st, b, i, now, TRUE).err
                                    = "Request is not active"
                     ELSE expired.err = "Not expired yet"

\* cancel and expire exclude each other in the runs too: a request that was
\* cancelled is never expired afterwards, and the other way round
C36_Step ==
    \A i \in RequestIds :
        /\ requestStatus[i] = "CANCELLED" => requestStatus'[i] = "CANCELLED"
        /\ requestStatus[i] = "EXPIRED" => requestStatus'[i] = "EXPIRED"

C36_CancelHasNoTimeGuard ==
    /\ []C36_CancelAtAnyTime
    /\ [][C36_Step]_vars

\* an Active request after its funding window: the borrower's cancel and a
\* third account's expire are both accepted
C36_Witness ==
    \E i \in ExistingRequests : \E a \in Accounts :
        /\ requestStatus[i] = "ACTIVE"
        /\ now > requestCreatedAt[i] + REQUEST_EXPIRY
        /\ a # loanRequests[i].borrower
        /\ cancelLoanRequest(Cur, loanRequests[i].borrower, i, TRUE).err = ""
        /\ expireLoanRequest(Cur, a, i, now, TRUE).err = ""

\* ---------------------------------------------------------------------
\* C37: while the lender rejects incoming value, every repay by the
\* borrower aborts: the loan stays open, the item stays in escrow and no
\* balance changes; a repay in time with enough value aborts because the
\* payment to the lender failed. Once the deadline has passed, that lender's
\* liquidate is accepted and hands the item to the lender.
C37_RepayNeedsLenderToAccept ==
    \A l \in OpenLoans :
        LET loan == activeLoans[l]
            k == loan.collateralTokenId
        IN /\ \A v \in RepayValues(l), refundAccepts \in BOOLEAN, custodianOk \in BOOLEAN :
                 LET r == repayLoan(Cur, loan.borrower, l, v, now,
                                    FALSE, refundAccepts, custodianOk)
                 IN v <= balance[loan.borrower] =>
                       /\ r.err # ""
                       /\ ~r.st.activeLoans[l].isRepaid
                       /\ r.st.owners[k] = Ledger
                       /\ r.st.balance = balance
                       /\ r.st.events = events
                       /\ (now <= loan.endTime /\ v >= calculateRepayAmount(loan)) =>
                             r.err = "ETH transfer to lender failed"
           /\ now > loan.endTime =>
                 LET r == liquidateExpiredLoan(Cur, loan.lender, l, now, TRUE) IN
                 /\ r.err = ""
                 /\ r.st.activeLoans[l].isRepaid
                 /\ r.st.owners[k] = loan.lender

\* a loan at its deadline whose borrower has the repay amount: the repay
\* aborts when the lender rejects the payment and returns when the lender
\* accepts it
C37_Witness ==
    \E l \in OpenLoans :
        LET loan == activeLoans[l]
            q == calculateRepayAmount(loan)
        IN /\ now = loan.endTime
           /\ loan.lender # loan.borrower
           /\ q <= balance[loan.borrower]
           /\ owners[loan.collateralTokenId] = Ledger
           /\ repayLoan(Cur, loan.borrower, l, q, now, FALSE, TRUE, TRUE).err
                 = "ETH transfer to lender failed"
           /\ repayLoan(Cur, loan.borrower, l, q, now, TRUE, TRUE, TRUE).err = ""

\* ---------------------------------------------------------------------
\* C38: once the funding window of an Active request has lapsed, expire is
\* accepted from every caller for as long as the request is Active; so when
\* the clock keeps advancing and some caller keeps trying to expire, every
\* Active request eventually is Funded, Cancelled or Expired, and the item
\* of a request that ends unfunded is handed to its borrower in the step
\* that ends it.
C38_ExpireStaysEnabled ==
    \A i \in ExistingRequests :
        (requestStatus[i] = "ACTIVE" /\ now > requestCreatedAt[i] + REQUEST_EXPIRY) =>
            \A a \in Accounts :
                LET r == expireLoanRequest(Cur, a, i, now, TRUE) IN
                /\ r.err = ""
                /\ r.st.requestStatus[i] = "EXPIRED"
                /\ r.st.owners[loanRequests[i].collateralTokenId] = loanRequests[i].borrower

C38_UnfundedEndReturnsItem ==
    \A i \in RequestIds :
        (requestStatus[i] = "ACTIVE" /\ requestStatus'[i] \in {"CANCELLED", "EXPIRED"}) =>
            owners'[loanRequests[i].collateralTokenId] = loanRequests[i].borrower

C38_EveryRequestEnds ==
    \A i \in RequestIds :
        (requestStatus[i] = "ACTIVE")
            ~> (requestStatus[i] \in {"FUNDED", "CANCELLED", "EXPIRED"})

C38_NoActiveRequestStuck ==
    /\ []C38_ExpireStaysEnabled
    /\ [][C38_UnfundedEndReturnsItem]_vars
    /\ C38_EveryRequestEnds

\* a request that nobody funded or cancelled was expired after its window
\* and its item is back with its borrower
C38_Witness ==
    \E i \in ExistingRequests :
        /\ requestStatus[i] = "EXPIRED"
        /\ now > requestCreatedAt[i] + REQUEST_EXPIRY
        /\ owners[loanRequests[i].collateralTokenId] = loanRequests[i].borrower
        /\ events[Len(events)].name = "LoanRequestExpired"
        /\ events[Len(events)].id = i

\* ---------------------------------------------------------------------
\* C39: once the deadline of an open loan has passed, every repay and
\* every liquidate by an account other than the lender is rejected, no
\* other call changes the loan or moves its item, and the clock never goes
\* back: the loan stays open and its item stays with the ledger in every
\* step that is not the lender's liquidate.
C39_Untouched(r, l) ==
    /\ r.st.activeLoans[l] = activeLoans[l]
    /\ r.st.owners[activeLoans[l].collateralTokenId] = Ledger

C39_OnlyLenderCanAct ==
    \A l \in OpenLoans :
        now > activeLoans[l].endTime =>
            LET loan == activeLoans[l] IN
            /\ owners[loan.collateralTokenId] = Ledger
            /\ \A a \in Accounts, f \in Faults :
                  \A v \in RepayValues(l) \cup {0} :
                      LET r == repayLoan(Cur, a, l, v, now,
                                         f # "payee", f # "refund", f # "custodian")
                      IN /\ r.err # ""
                         /\ (a = loan.borrower /\ v <= balance[a]) => r.err = "Loan is expired"
                         /\ C39_Untouched(r, l)
            /\ \A a \in Accounts \ {loan.lender}, ok \in BOOLEAN :
                  LET r == liquidateExpiredLoan(Cur, a, l, now, ok) IN
                  r.err = "Only lender can liquidate" /\ C39_Untouched(r, l)
            /\ \A a \in Accounts, m \in LoanIds \ {l}, f \in Faults :
                  /\ C39_Untouched(liquidateExpiredLoan(Cur, a, m, now, f # "custodian"), l)
                  /\ \A v \in RepayValues(m) :
                        C39_Untouched(repayLoan(Cur, a, m, v, now, f # "payee",
                                                f # "refund", f # "custodian"), l)
            /\ \A a \in Accounts, terms \in Terms, k \in TokenIds, ok \in BOOLEAN :
                  C39_Untouched(createLoanRequest(Cur, a, terms[1], terms[2], terms[3],
                                                  k, now, ok), l)
            /\ \A a \in Accounts, i \in RequestIds, ok \in BOOLEAN :
                  /\ C39_Untouched(expireLoanRequest(Cur, a, i, now, ok), l)
                  /\ C39_Untouched(cancelLoanRequest(Cur, a, i, ok), l)
                  /\ \A v \in FundValues(i) :
                        C39_Untouched(fundLoanRequest(Cur, a, i, v, now, ok), l)

C39_Step ==
    \A l \in OpenLoans :
        now > activeLoans[l].endTime =>
            /\ now' >= now
            /\ \/ /\ activeLoans'[l] = activeLoans[l]
                  /\ owners'[activeLoans[l].collateralTokenId] = Ledger
               \/ /\ Emitted("LoanLiquidated", l)
                  /\ owners'[activeLoans[l].collateralTokenId] = activeLoans[l].lender

C40_FlagAgreesWithStatus ==
    \A i \in RequestIds :
        IF i < totalRequests
        THEN /\ loanRequests[i].isActive <=> requestStatus[i] = "ACTIVE"
             /\ requestStatus[i] \in {"ACTIVE", "FUNDED", "CANCELLED", "EXPIRED"}
             /\ requestCreatedAt[i] # 0
        ELSE /\ ~loanRequests[i].isActive
             /\ requestStatus[i] = "NONE"
             /\ requestCreatedAt[i] = 0

C40_Unreachable == {"Not ACTIVE", "Missing createdAt"}

C40_SecondChecksNeverFail ==
    \A a \in Accounts, i \in RequestIds, ok \in BOOLEAN :
        /\ expireLoanRequest(Cur, a, i, now, ok).err \notin C40_Unreachable
        /\ cancelLoanRequest(Cur, a, i, ok).err \notin C40_Unreachable
        /\ \A v \in FundValues(i) :
              fundLoanRequest(Cur, a, i, v, now, ok).err \notin C40_Unreachable

C40_FlagStatusAndCreatedAtAgree ==
    C40_FlagAgreesWithStatus /\ C40_SecondChecksNeverFail

\* one request was funded and a later one is Active: the flag is clear on
\* the first and set on the second, both have a creation time, and the
\* next slot is untouched
C40_Witness ==
    /\ totalRequests = 2
    /\ requestStatus[0] = "FUNDED" /\ ~loanRequests[0].isActive
    /\ requestStatus[1] = "ACTIVE" /\ loanRequests[1].isActive
    /\ requestCreatedAt[0] # 0 /\ requestCreatedAt[1] > requestCreatedAt[0]
    /\ requestStatus[2] = "NONE" /\ requestCreatedAt[2] = 0
    /\ expireLoanRequest(Cur, "carol", 0, now, TRUE).err = "Request is not active"

====
